---- MODULE Spec2Model ----
(***************************************************************************)
(* Quantum Gomoku: the game engine of hooks/useQuantumGame.ts together     *)
(* with the pure helpers of utils/gameLogic.ts.                            *)
(*                                                                         *)
(* Every hook instance (one browser tab) is a client.  Its React state,    *)
(* refs and timers are functions from the client to the value.  The ref    *)
(* gameStateRef mirrors gameState (it is copied after every render), so    *)
(* handlers and timer callbacks read gameState directly.                   *)
(* Probabilities are kept in tenths: 0.9 is 9.                             *)
(*                                                                         *)
(* joinRef is the position of a client's joinRoom call between its awaits, *)
(* connRef the presence record the client's connection effect holds, room  *)
(* the room document on the server with the value events still on their    *)
(* way to each listener.                                                   *)
(***************************************************************************)
EXTENDS Integers, Sequences, FiniteSets, TLC

VARIABLES gameState, history, timeoutRef, cpuStateRef, cpuTimer,
          noWinnerTimer, revertTimer, roomId, myColor, isHostRef, joinRef,
          connRef, room, lastCall, pendingObs

vars == <<gameState, history, timeoutRef, cpuStateRef, cpuTimer,
          noWinnerTimer, revertTimer, roomId, myColor, isHostRef, joinRef,
          connRef, room, lastCall, pendingObs>>

netVars == <<roomId, myColor, isHostRef, joinRef, connRef, room>>

(***************************************************************************)
(* Bounds of the exploration.                                              *)
(***************************************************************************)
\* number of cells the presentation layer clicks on (a stretch of one row)
NumPlayCells == 2
\* longest undo history explored in free local play
MaxHistory == 3
\* longest undo history of the deeper exploration of free local play
MaxDeepHistory == 4
\* longest undo history explored with the confirmation mode
MaxConfirmHistory == 3
\* length of the row of cells of the line scenario
NumLineCells == 5
\* history frames explored after the opening of the line scenario
MaxLineFree == 2
\* free cells clicked on after the opening of the quota scenario
NumQuotaCells == 1
\* history frames explored after the opening of the quota scenario
MaxQuotaFree == 4
\* cells the human clicks on in play against the CPU
NumPveCells == 1
\* longest undo history explored in play against the CPU
MaxPveHistory == 3
\* length of the row of stones observed in the win scenario
NumWinRowCells == 10

\* online play: the cells the two clients may click, the frames a client
\* may have pushed in local play before it joins, and the writes the room
\* may receive
NumOnlineCells == 1
MaxStaleHistory == 1
MaxRoomWrites == 5

\* joining: the writes the room may receive from its creation on
MaxJoinWrites == 5

\* the end-to-end scenario: the frames of the history
MaxScenarioHistory == 4

\* synchronisation: the writes the room may receive after the opening
MaxSyncWrites == 2

\* getCpuMove: the cells whose occupation varies over the input boards
NumMoveCells == 4

\* the no-winner observation online: the writes the room may receive after
\* the opening
MaxRevertWrites == 7

\* a third client joining: the writes the room may receive from its
\* creation on
MaxThirdWrites == 6

(***************************************************************************)
(* utils/constants.ts                                                      *)
(***************************************************************************)
BOARD_SIZE == 15

STONE_PROBABILITIES ==
  [Black |-> [i \in {0, 1} |-> IF i = 0 THEN 9 ELSE 7],
   White |-> [i \in {0, 1} |-> IF i = 0 THEN 3 ELSE 1]]

(***************************************************************************)
(* types/game.ts                                                           *)
(***************************************************************************)
Player == {"Black", "White"}
None == "None"
NoIndex == -1
Index == 0 .. (BOARD_SIZE - 1)
Coords == Index \X Index

\* A BoardState is kept as the function from the coordinates that hold a
\* Stone to that Stone; a coordinate outside its domain is a null cell.
Stone(p) == [probability |-> p, observedColor |-> None]

EmptyBoard == <<>>

hasStone(board, rc) == rc \in DOMAIN board

\* board[r][c]?.observedColor
observedColorAt(board, rc) ==
  IF hasStone(board, rc) THEN board[rc].observedColor ELSE None

\* the board with board[r][c] = stone
withStone(board, rc, stone) ==
  [x \in DOMAIN board \cup {rc} |-> IF x = rc THEN stone ELSE board[x]]

Opponent(p) == IF p = "Black" THEN "White" ELSE "Black"

StoneCells(board) == DOMAIN board

\* the client of the local (single tab) specifications
Me == "tab1"

\* a second browser tab, the opponent in online play
Peer == "tab2"

Tabs == {Me, Peer}

\* an argument that the caller leaves out
Undefined == "undefined"

(***************************************************************************)
(* utils/gameLogic.ts: createInitialState, performUndo,                    *)
(* calculateNextTurnState                                                  *)
(***************************************************************************)
createInitialState ==
  [board |-> EmptyBoard,
   gameMode |-> "PvP",
   cpuColor |-> None,
   currentPlayer |-> "Black",
   selectedStoneIndex |-> 0,
   lastBlackStoneIndex |-> NoIndex,
   lastWhiteStoneIndex |-> NoIndex,
   blackObservationCount |-> 5,
   whiteObservationCount |-> 5,
   isStonePlaced |-> FALSE,
   winner |-> None,
   isGameOver |-> FALSE,
   isObserving |-> FALSE,
   isCollapsing |-> FALSE,
   showNoWinnerMessage |-> FALSE,
   confirmPlacementMode |-> FALSE,
   pendingStone |-> <<>>,
   winningLine |-> <<>>,
   isReverting |-> FALSE,
   status |-> None,
   hostColor |-> None,
   connections |-> {}]

\* performUndo that leaves the history as it is
performUndoKeepingHistory(currentHistory) ==
  [state |-> currentHistory[Len(currentHistory)],
   history |-> currentHistory]

performUndo(currentHistory) ==
  [state |-> currentHistory[Len(currentHistory)],
   history |-> SubSeq(currentHistory, 1, Len(currentHistory) - 1)]

\* nextSelected that always falls back on the first strength
nextSelectedFirst(currentState) == 0

nextSelected(currentState) ==
  IF Opponent(currentState.currentPlayer) = "Black"
  THEN (IF currentState.lastBlackStoneIndex = 0 THEN 1 ELSE 0)
  ELSE (IF currentState.lastWhiteStoneIndex = 1 THEN 0 ELSE 1)

\* calculateNextTurnState without the reset of the placed flag
nextTurnKeepingPlaced(currentState) ==
  [currentState EXCEPT
     !.currentPlayer = Opponent(currentState.currentPlayer),
     !.selectedStoneIndex = nextSelected(currentState)]

\* the state with the partial state of calculateNextTurnState spread over it
calculateNextTurnState(currentState) ==
  [currentState EXCEPT
     !.currentPlayer = Opponent(currentState.currentPlayer),
     !.selectedStoneIndex = nextSelected(currentState),
     !.isStonePlaced = FALSE]

(***************************************************************************)
(* utils/gameLogic.ts: checkWin                                            *)
(***************************************************************************)
\* the number of stones in a row that wins (count >= 5)
WinLength == 5

directions == <<[r |-> 0, c |-> 1], [r |-> 1, c |-> 0],
                [r |-> 1, c |-> 1], [r |-> 1, c |-> -1]>>

\* runCount that looks at three cells past the origin only
runCountOfFour(board, r, c, dir, player) ==
  LET ok(i) == /\ r + dir.r * i \in Index
               /\ c + dir.c * i \in Index
               /\ observedColorAt(board, <<r + dir.r * i, c + dir.c * i>>) = player
      bad == {i \in 1 .. 3 : ~ok(i)}
  IN IF bad = {} THEN 5
     ELSE (CHOOSE i \in bad : \A j \in bad : i <= j)

\* the inner loop of checkWin: 1 + the matching cells met before the break
runCount(board, r, c, dir, player) ==
  LET ok(i) == /\ r + dir.r * i \in Index
               /\ c + dir.c * i \in Index
               /\ observedColorAt(board, <<r + dir.r * i, c + dir.c * i>>) = player
      bad == {i \in 1 .. 4 : ~ok(i)}
  IN IF bad = {} THEN 5
     ELSE (CHOOSE i \in bad : \A j \in bad : i <= j)

lineFrom(r, c, dir) ==
  [k \in 1 .. 5 |-> <<r + dir.r * (k - 1), c + dir.c * (k - 1)>>]

RECURSIVE cellLines(_, _, _, _, _)
\* the coordinates pushed for the origin cell (r, c), directions d..4
cellLines(board, r, c, player, d) ==
  IF d > 4 THEN <<>>
  ELSE (IF runCount(board, r, c, directions[d], player) >= 5
        THEN lineFrom(r, c, directions[d])
        ELSE <<>>) \o cellLines(board, r, c, player, d + 1)

\* one iteration of the inner loop (over c) of checkWin
scanCell(board, r, c, acc) ==
  LET player == observedColorAt(board, <<r, c>>)
  IN IF player = None THEN acc
     ELSE IF player = "Black" /\ acc.blackWins THEN acc
     ELSE IF player = "White" /\ acc.whiteWins THEN acc
     ELSE LET ls == cellLines(board, r, c, player, 1)
          IN IF ls = <<>> THEN acc
             ELSE IF player = "Black"
               THEN [acc EXCEPT !.blackWins = TRUE, !.blackLines = @ \o ls]
               ELSE [acc EXCEPT !.whiteWins = TRUE, !.whiteLines = @ \o ls]

RECURSIVE scanRow(_, _, _, _)
\* the inner loop of checkWin over the cells c.. of row r
scanRow(board, r, c, acc) ==
  IF c >= BOARD_SIZE THEN acc
  ELSE scanRow(board, r, c + 1, scanCell(board, r, c, acc))

RECURSIVE scanWin(_, _, _)
\* the outer loop of checkWin over the rows r.., left once both colors won
scanWin(board, r, acc) ==
  IF r >= BOARD_SIZE THEN acc
  ELSE LET after == scanRow(board, r, 0, acc)
       IN IF after.blackWins /\ after.whiteWins THEN after
          ELSE scanWin(board, r + 1, after)

\* checkWin that gives the game to Black when both colors have a line
checkWinBlackFirst(board, observer) ==
  LET acc == scanWin(board, 0, [blackWins |-> FALSE, whiteWins |-> FALSE,
                                blackLines |-> <<>>, whiteLines |-> <<>>])
      winner == IF acc.blackWins THEN "Black"
                ELSE IF acc.whiteWins THEN "White"
                ELSE None
  IN [winner |-> winner,
      winningLine |-> IF winner = "Black" THEN acc.blackLines
                      ELSE IF winner = "White" THEN acc.whiteLines
                      ELSE <<>>]

checkWin(board, observer) ==
  LET acc == scanWin(board, 0, [blackWins |-> FALSE, whiteWins |-> FALSE,
                                blackLines |-> <<>>, whiteLines |-> <<>>])
      winner == IF acc.blackWins /\ acc.whiteWins THEN observer
                ELSE IF acc.blackWins THEN "Black"
                ELSE IF acc.whiteWins THEN "White"
                ELSE None
  IN [winner |-> winner,
      winningLine |-> IF winner = "Black" THEN acc.blackLines
                      ELSE IF winner = "White" THEN acc.whiteLines
                      ELSE <<>>]

(***************************************************************************)
(* The shared room document (Firebase Realtime Database).  doc is the      *)
(* value at rooms/<id>, inbox[c] the value events not yet handed to the    *)
(* onValue callback of client c, version the number of writes so far.      *)
(***************************************************************************)
\* the room id every client types into the join form
TheRoom == "room1"

NoRoom ==
  [exists |-> FALSE,
   doc |-> createInitialState,
   inbox |-> [c \in Tabs |-> <<>>],
   version |-> 0]

\* update(roomRef, state) merges the keys of state into the document: a key
\* the local state does not carry (status, hostColor and connections of a
\* state that never came from the room) keeps the document's value
mergedDoc(doc, state) ==
  [state EXCEPT
     !.status = IF @ = None THEN doc.status ELSE @,
     !.hostColor = IF @ = None THEN doc.hostColor ELSE @,
     !.connections = IF @ = {} THEN doc.connections ELSE @]

\* the server applies a write of client writer and raises a value event at
\* every listener; own is TRUE when the writer's listener has already been
\* called with the new value inside the write call (listeners: the clients
\* with a room id)
serverWrite(r, newDoc, writer, listeners, own) ==
  IF r.exists /\ newDoc = r.doc THEN r
  ELSE [r EXCEPT
          !.exists = TRUE,
          !.doc = newDoc,
          !.version = @ + 1,
          !.inbox = [c \in Tabs |->
                       IF c \notin listeners THEN @[c]
                       ELSE IF c = writer /\ own THEN <<>>
                       ELSE Append(@[c], newDoc)]]

\* the clients whose onValue listener is attached (the effect returns at
\* once without a room id)
Listeners == {c \in Tabs : roomId[c] # ""}

\* client c writes its whole state with update(ref(db, `rooms/${roomId}`)):
\* without a room id the path is not the room's and no listener hears it
writesRoom(c, prev) == prev.gameMode = "Online" /\ roomId[c] # ""

\* the room after setGameState(newState) and the update of client c
roomUpdate(c, prev, newState) ==
  IF writesRoom(c, prev)
  THEN serverWrite(room, mergedDoc(room.doc, newState), c, Listeners, TRUE)
  ELSE room

\* the state of client c after setGameState(newState) and the update: the
\* write calls the client's own listener with the merged document before
\* the handler returns, and the listener keeps confirmPlacementMode
stateUpdate(c, prev, newState) ==
  IF writesRoom(c, prev) THEN mergedDoc(room.doc, newState) ELSE newState

(***************************************************************************)
(* hooks/useQuantumGame.ts: effects that own timers                        *)
(***************************************************************************)
\* the timer the CPU effect leaves pending once it has run on state gs
cpuEffect(gs, cpuState) ==
  IF \/ gs.gameMode # "PvE"
     \/ gs.currentPlayer # gs.cpuColor
     \/ gs.isGameOver
     \/ gs.isCollapsing
     \/ gs.isReverting
  THEN "none"
  ELSE IF ~gs.isStonePlaced /\ ~gs.isObserving THEN "place"
  ELSE IF gs.isStonePlaced /\ ~gs.isObserving /\ cpuState = "placed"
    THEN "decide"
  ELSE "none"

\* The effects run after a render caused by setGameState of client c: the
\* CPU effect depends on gameState, the two no-winner effects on one flag
\* and roomId.  nwFired / rvFired: this step is that timer's callback.
Render(c, nwFired, rvFired) ==
  /\ cpuTimer' = [cpuTimer EXCEPT
       ![c] = cpuEffect(gameState'[c], cpuStateRef'[c])]
  /\ noWinnerTimer' = [noWinnerTimer EXCEPT
       ![c] = IF \/ gameState'[c].showNoWinnerMessage
                     # gameState[c].showNoWinnerMessage
                 \/ roomId'[c] # roomId[c]
              THEN gameState'[c].showNoWinnerMessage
              ELSE IF nwFired THEN FALSE ELSE @]
  /\ revertTimer' = [revertTimer EXCEPT
       ![c] = IF \/ gameState'[c].isReverting # gameState[c].isReverting
                 \/ roomId'[c] # roomId[c]
              THEN gameState'[c].isReverting
              ELSE IF rvFired THEN FALSE ELSE @]

\* a handler that returned before any setState
Ignored(c) ==
  UNCHANGED <<gameState, history, timeoutRef, cpuStateRef, cpuTimer,
              noWinnerTimer, revertTimer, roomId, myColor, isHostRef, joinRef, connRef, room,
              pendingObs>>

Call(name, c, args) == [op |-> name, client |-> c, args |-> args]

NoObs == [active |-> FALSE, by |-> None, board |-> EmptyBoard]

(***************************************************************************)
(* hooks/useQuantumGame.ts: getEffectiveMyColor, selectStone,              *)
(* toggleConfirmMode, undo                                                 *)
(***************************************************************************)
getEffectiveMyColor(c, currentState) ==
  IF myColor[c] # None THEN myColor[c]
  ELSE IF currentState.gameMode = "Online" /\ currentState.hostColor # None
    THEN (IF isHostRef[c] THEN currentState.hostColor
          ELSE Opponent(currentState.hostColor))
  ELSE None

\* notMyTurn that lets a client without a color act
notMyTurnWithColor(c, prev) ==
  /\ prev.gameMode = "Online"
  /\ myColor[c] # None
  /\ prev.currentPlayer # getEffectiveMyColor(c, prev)

notMyTurn(c, prev) ==
  prev.gameMode = "Online" /\ prev.currentPlayer # getEffectiveMyColor(c, prev)

selectStone(c, index) ==
  LET prev == gameState[c] IN
  /\ lastCall' = Call("selectStone", c, <<index>>)
  /\ IF notMyTurn(c, prev) THEN Ignored(c)
     ELSE /\ gameState' = [gameState EXCEPT ![c].selectedStoneIndex = index]
          /\ UNCHANGED <<history, timeoutRef, cpuStateRef, roomId, myColor,
                         isHostRef, joinRef, connRef, room, pendingObs>>
          /\ Render(c, FALSE, FALSE)

toggleConfirmMode(c) ==
  /\ lastCall' = Call("toggleConfirmMode", c, <<>>)
  /\ gameState' = [gameState EXCEPT
       ![c].confirmPlacementMode = ~gameState[c].confirmPlacementMode,
       ![c].pendingStone = <<>>]
  /\ UNCHANGED <<history, timeoutRef, cpuStateRef, roomId, myColor,
                 isHostRef, joinRef, connRef, room, pendingObs>>
  /\ Render(c, FALSE, FALSE)

RECURSIVE undoLoop(_, _)
\* the while loop of undo in PvE: res is {state, history}
undoLoop(res, cpuColor) ==
  IF /\ Len(res.history) > 0
     /\ (res.state.currentPlayer = cpuColor \/ res.state.isStonePlaced)
  THEN undoLoop(performUndo(res.history), cpuColor)
  ELSE res

\* undoIgnored that only looks at the history
undoIgnoredWhenEmpty(gs, h) == Len(h) = 0

\* the two early returns of undo
undoIgnored(gs, h) == gs.gameMode = "Online" \/ Len(h) = 0

undo(c) ==
  LET gs == gameState[c]
      first == performUndo(history[c])
      res == IF gs.gameMode = "PvE" /\ gs.cpuColor # None
             THEN undoLoop(first, gs.cpuColor)
             ELSE first
  IN
  /\ lastCall' = Call("undo", c, <<>>)
  /\ IF undoIgnored(gs, history[c]) THEN Ignored(c)
     ELSE /\ history' = [history EXCEPT ![c] = res.history]
          /\ gameState' = [gameState EXCEPT ![c] = res.state]
          /\ cpuStateRef' = [cpuStateRef EXCEPT ![c] = "thinking"]
          /\ timeoutRef' = [timeoutRef EXCEPT ![c] = FALSE]
          /\ pendingObs' = [pendingObs EXCEPT ![c] = NoObs]
          /\ UNCHANGED <<roomId, myColor, isHostRef, joinRef, connRef, room>>
          /\ Render(c, FALSE, FALSE)

(***************************************************************************)
(* hooks/useQuantumGame.ts: placeStone, endTurn                            *)
(***************************************************************************)
placeStoneRejected(prev, row, col) ==
  \/ prev.isGameOver
  \/ prev.isObserving
  \/ prev.isCollapsing
  \/ prev.isStonePlaced
  \/ hasStone(prev.board, <<row, col>>)

\* placedState with the stone of the first strength whatever is selected
placedStateFirstStrength(prev, row, col) ==
  LET probability == STONE_PROBABILITIES[prev.currentPlayer][0]
  IN [prev EXCEPT
        !.board = withStone(prev.board, <<row, col>>, Stone(probability)),
        !.lastBlackStoneIndex =
           IF prev.currentPlayer = "Black" THEN prev.selectedStoneIndex ELSE @,
        !.lastWhiteStoneIndex =
           IF prev.currentPlayer = "White" THEN prev.selectedStoneIndex ELSE @,
        !.isStonePlaced = TRUE,
        !.pendingStone = <<>>]

\* the state placeStone sets once the placement is committed
placedState(prev, row, col) ==
  LET probability ==
        STONE_PROBABILITIES[prev.currentPlayer][prev.selectedStoneIndex]
  IN [prev EXCEPT
        !.board = withStone(prev.board, <<row, col>>, Stone(probability)),
        !.lastBlackStoneIndex =
           IF prev.currentPlayer = "Black" THEN prev.selectedStoneIndex ELSE @,
        !.lastWhiteStoneIndex =
           IF prev.currentPlayer = "White" THEN prev.selectedStoneIndex ELSE @,
        !.isStonePlaced = TRUE,
        !.pendingStone = <<>>]

\* awaitsConfirm that asks for a second click only when no cell is pending
awaitsConfirmFirstOnly(prev, row, col) ==
  prev.confirmPlacementMode /\ prev.pendingStone = <<>>

\* in confirmation mode a click on a cell that is not the pending one only
\* marks the cell
awaitsConfirm(prev, row, col) ==
  prev.confirmPlacementMode /\ prev.pendingStone # <<row, col>>

placeStone(c, row, col) ==
  LET prev == gameState[c]
      newState == placedState(prev, row, col)
  IN
  /\ lastCall' = Call("placeStone", c, <<row, col>>)
  /\ IF notMyTurn(c, prev) \/ placeStoneRejected(prev, row, col)
     THEN Ignored(c)
     ELSE IF awaitsConfirm(prev, row, col)
     THEN /\ gameState' = [gameState EXCEPT ![c].pendingStone = <<row, col>>]
          /\ UNCHANGED <<history, timeoutRef, cpuStateRef, roomId, myColor,
                         isHostRef, joinRef, connRef, room, pendingObs>>
          /\ Render(c, FALSE, FALSE)
     ELSE /\ history' = IF prev.gameMode # "Online"
                        THEN [history EXCEPT ![c] = Append(@, prev)]
                        ELSE history
          /\ gameState' =
               [gameState EXCEPT ![c] = stateUpdate(c, prev, newState)]
          /\ room' = roomUpdate(c, prev, newState)
          /\ UNCHANGED <<timeoutRef, cpuStateRef, roomId, myColor, isHostRef,
                         joinRef, connRef, pendingObs>>
          /\ Render(c, FALSE, FALSE)

\* the body of endTurn, as the button and the CPU run it
endTurnBody(c) ==
  LET prev == gameState[c]
      newState == calculateNextTurnState(prev)
  IN
  IF notMyTurn(c, prev)
  THEN UNCHANGED <<gameState, history, room>>
  ELSE /\ history' = IF prev.gameMode # "Online"
                     THEN [history EXCEPT ![c] = Append(@, prev)]
                     ELSE history
       /\ gameState' = [gameState EXCEPT ![c] = stateUpdate(c, prev, newState)]
       /\ room' = roomUpdate(c, prev, newState)

endTurn(c) ==
  /\ lastCall' = Call("endTurn", c, <<>>)
  /\ IF notMyTurn(c, gameState[c]) THEN Ignored(c)
     ELSE /\ endTurnBody(c)
          /\ UNCHANGED <<timeoutRef, cpuStateRef, roomId, myColor, isHostRef,
                         joinRef, connRef, pendingObs>>
          /\ Render(c, FALSE, FALSE)

(***************************************************************************)
(* hooks/useQuantumGame.ts: observeBoard and its collapse timer            *)
(***************************************************************************)
observationCount(gs, player) ==
  IF player = "Black" THEN gs.blackObservationCount
  ELSE gs.whiteObservationCount

\* observeRejected without the check of the observation count
observeRejectedUncounted(c, gs) ==
  \/ gs.isGameOver
  \/ gs.isCollapsing
  \/ notMyTurn(c, gs)
  \/ ~gs.isStonePlaced
  \/ gs.isObserving

observeRejected(c, gs) ==
  \/ gs.isGameOver
  \/ gs.isCollapsing
  \/ notMyTurn(c, gs)
  \/ ~gs.isStonePlaced
  \/ gs.isObserving
  \/ observationCount(gs, gs.currentPlayer) <= 0

\* the body of observeBoard, as the button and the CPU run it
observeBody(c) ==
  LET currentGameState == gameState[c]
      collapsingState == [currentGameState EXCEPT !.isCollapsing = TRUE]
  IN
  IF observeRejected(c, currentGameState)
  THEN UNCHANGED <<gameState, history, room, timeoutRef, pendingObs>>
  ELSE /\ history' = IF currentGameState.gameMode # "Online"
                     THEN [history EXCEPT ![c] = Append(@, currentGameState)]
                     ELSE history
       /\ gameState' = [gameState EXCEPT
            ![c] = stateUpdate(c, currentGameState, collapsingState)]
       /\ room' = roomUpdate(c, currentGameState, collapsingState)
       /\ timeoutRef' = [timeoutRef EXCEPT ![c] = TRUE]
       /\ pendingObs' = [pendingObs EXCEPT
            ![c] = [active |-> TRUE, by |-> currentGameState.currentPlayer,
                    board |-> currentGameState.board]]

observeBoard(c) ==
  /\ lastCall' = Call("observeBoard", c, <<>>)
  /\ IF observeRejected(c, gameState[c]) THEN Ignored(c)
     ELSE /\ observeBody(c)
          /\ UNCHANGED <<cpuStateRef, roomId, myColor, isHostRef, joinRef,
                         connRef>>
          /\ Render(c, FALSE, FALSE)

\* observedBoard that leaves alone the stones certain enough to be Black
observedBoardOfUnsure(board, draw) ==
  [rc \in DOMAIN board |->
     IF board[rc].probability >= 9 THEN board[rc]
     ELSE [board[rc] EXCEPT !.observedColor = draw[rc]]]

\* the board with every stone given the color drawn for it
observedBoard(board, draw) ==
  [rc \in DOMAIN board |-> [board[rc] EXCEPT !.observedColor = draw[rc]]]

\* collapseResult that charges every observation to Black
collapseResultChargingBlack(prev, obsBoard) ==
  LET won == checkWin(obsBoard, prev.currentPlayer)
      newBlackCount == prev.blackObservationCount - 1
      newWhiteCount == prev.whiteObservationCount
  IN IF won.winner # None
     THEN [prev EXCEPT !.board = obsBoard,
                       !.winner = won.winner,
                       !.isGameOver = TRUE,
                       !.winningLine = won.winningLine,
                       !.isObserving = FALSE,
                       !.isCollapsing = FALSE,
                       !.showNoWinnerMessage = FALSE,
                       !.blackObservationCount = newBlackCount,
                       !.whiteObservationCount = newWhiteCount]
     ELSE [prev EXCEPT !.board = obsBoard,
                       !.winner = None,
                       !.isGameOver = FALSE,
                       !.winningLine = <<>>,
                       !.isObserving = TRUE,
                       !.isCollapsing = FALSE,
                       !.showNoWinnerMessage = TRUE,
                       !.blackObservationCount = newBlackCount,
                       !.whiteObservationCount = newWhiteCount]

\* the state the collapse timer sets from prev and the observed board
collapseResult(prev, obsBoard) ==
  LET won == checkWin(obsBoard, prev.currentPlayer)
      newBlackCount == IF prev.currentPlayer = "Black"
                       THEN prev.blackObservationCount - 1
                       ELSE prev.blackObservationCount
      newWhiteCount == IF prev.currentPlayer = "White"
                       THEN prev.whiteObservationCount - 1
                       ELSE prev.whiteObservationCount
  IN IF won.winner # None
     THEN [prev EXCEPT !.board = obsBoard,
                       !.winner = won.winner,
                       !.isGameOver = TRUE,
                       !.winningLine = won.winningLine,
                       !.isObserving = FALSE,
                       !.isCollapsing = FALSE,
                       !.showNoWinnerMessage = FALSE,
                       !.blackObservationCount = newBlackCount,
                       !.whiteObservationCount = newWhiteCount]
     ELSE [prev EXCEPT !.board = obsBoard,
                       !.winner = None,
                       !.isGameOver = FALSE,
                       !.winningLine = <<>>,
                       !.isObserving = TRUE,
                       !.isCollapsing = FALSE,
                       !.showNoWinnerMessage = TRUE,
                       !.blackObservationCount = newBlackCount,
                       !.whiteObservationCount = newWhiteCount]

\* the callback of the timer observeBoard sets; Math.random() < probability
\* can come out either way for every stone
CollapseTimeout(c) ==
  LET prev == gameState[c] IN
  /\ timeoutRef[c]
  /\ lastCall' = Call("collapseTimer", c, <<>>)
  /\ IF ~prev.isCollapsing
     THEN /\ timeoutRef' = [timeoutRef EXCEPT ![c] = FALSE]
          /\ UNCHANGED <<gameState, history, cpuStateRef, cpuTimer,
                         noWinnerTimer, revertTimer, roomId, myColor,
                         isHostRef, joinRef, connRef, room, pendingObs>>
     ELSE \E draw \in [StoneCells(prev.board) -> Player] :
            LET newState ==
                  collapseResult(prev, observedBoard(prev.board, draw))
            IN /\ gameState' = [gameState EXCEPT
                    ![c] = stateUpdate(c, prev, newState)]
               /\ room' = roomUpdate(c, prev, newState)
               /\ timeoutRef' = [timeoutRef EXCEPT ![c] = FALSE]
               /\ pendingObs' = IF newState.isGameOver
                                THEN [pendingObs EXCEPT ![c] = NoObs]
                                ELSE pendingObs
               /\ UNCHANGED <<history, cpuStateRef, roomId, myColor,
                              isHostRef, joinRef, connRef>>
               /\ Render(c, FALSE, FALSE)

(***************************************************************************)
(* hooks/useQuantumGame.ts: the two effects after a no-winner observation  *)
(***************************************************************************)
\* revertedBoard that keeps the observed colors
revertedBoardColored(board) == board

revertedBoard(board) ==
  [rc \in DOMAIN board |-> [board[rc] EXCEPT !.observedColor = None]]

NoWinnerTimeout(c) ==
  LET stateAfterObservation == gameState[c]
      revertState == [stateAfterObservation EXCEPT
        !.board = revertedBoard(stateAfterObservation.board),
        !.isObserving = FALSE,
        !.isReverting = TRUE,
        !.showNoWinnerMessage = FALSE]
  IN
  /\ noWinnerTimer[c]
  /\ lastCall' = Call("noWinnerTimer", c, <<>>)
  /\ IF stateAfterObservation.gameMode = "Online" /\ roomId[c] = ""
     THEN UNCHANGED <<gameState, room>>
     ELSE /\ gameState' = [gameState EXCEPT
               ![c] = stateUpdate(c, stateAfterObservation, revertState)]
          /\ room' = roomUpdate(c, stateAfterObservation, revertState)
  /\ UNCHANGED <<history, timeoutRef, cpuStateRef, roomId, myColor, isHostRef,
                 joinRef, connRef, pendingObs>>
  /\ Render(c, TRUE, FALSE)

RevertTimeout(c) ==
  LET stateAfterRevert == gameState[c]
      nextTurnState ==
        [calculateNextTurnState(stateAfterRevert) EXCEPT !.isReverting = FALSE]
  IN
  /\ revertTimer[c]
  /\ lastCall' = Call("revertTimer", c, <<>>)
  /\ IF stateAfterRevert.gameMode = "Online" /\ roomId[c] = ""
     THEN UNCHANGED <<gameState, room>>
     ELSE /\ gameState' = [gameState EXCEPT
               ![c] = stateUpdate(c, stateAfterRevert, nextTurnState)]
          /\ room' = roomUpdate(c, stateAfterRevert, nextTurnState)
  /\ pendingObs' = [pendingObs EXCEPT ![c] = NoObs]
  /\ UNCHANGED <<history, timeoutRef, cpuStateRef, roomId, myColor, isHostRef,
                 joinRef, connRef>>
  /\ Render(c, FALSE, TRUE)

(***************************************************************************)
(* hooks/useQuantumGame.ts: the effects on [roomId, myColor] (the onValue  *)
(* subscription and the connection record)                                 *)
(***************************************************************************)
NoConn == [key |-> "none", pending |-> FALSE]

\* the child of connections the connection effect writes
connectionKey(color, isHost) ==
  IF color # None THEN color
  ELSE IF isHost THEN "host"
  ELSE "none"

\* this step changes roomId or myColor of client c: both effects are
\* cleaned up and run again
effectsRerun(c) == roomId'[c] # roomId[c] \/ myColor'[c] # myColor[c]

\* the connection record of client c after the step: with a room id the
\* write of the new key waits for the .info/connected callback
connAfter(c) ==
  IF ~effectsRerun(c) THEN connRef[c]
  ELSE IF roomId'[c] = "" THEN NoConn
  ELSE LET key == connectionKey(myColor'[c], isHostRef'[c])
       IN [key |-> key, pending |-> key # "none"]

\* room r after the effects of client c: the cleanup sets the old key to
\* null, the old listener is gone with the events it had not handled, and
\* a new listener starts with the value of the room
roomAfterEffects(c, r) ==
  IF ~effectsRerun(c) THEN r
  ELSE LET gone == connRef[c].key
           cleaned ==
             IF gone = "none" THEN r
             ELSE serverWrite(r, [r.doc EXCEPT !.connections = @ \ {gone}],
                              c, Listeners \ {c}, FALSE)
       IN [cleaned EXCEPT
             !.inbox[c] = IF roomId'[c] # "" /\ cleaned.exists
                          THEN <<cleaned.doc>>
                          ELSE <<>>]

(***************************************************************************)
(* hooks/useQuantumGame.ts: resetGame                                      *)
(***************************************************************************)
\* resetState that falls back on the initial mode, not on the current one
resetStateInitialMode(prev, mode, cpuColor) ==
  [createInitialState EXCEPT
     !.gameMode = IF mode # Undefined THEN mode
                  ELSE createInitialState.gameMode,
     !.cpuColor = IF cpuColor # Undefined THEN cpuColor
                  ELSE createInitialState.cpuColor]

\* the state resetGame sets: mode ?? prev.gameMode
resetState(prev, mode, cpuColor) ==
  [createInitialState EXCEPT
     !.gameMode = IF mode # Undefined THEN mode ELSE prev.gameMode,
     !.cpuColor = IF cpuColor # Undefined THEN cpuColor ELSE prev.cpuColor]

resetGame(c, mode, cpuColor) ==
  LET prev == gameState[c] IN
  /\ lastCall' = Call("resetGame", c, <<mode, cpuColor>>)
  /\ timeoutRef' = [timeoutRef EXCEPT ![c] = FALSE]
  /\ gameState' = [gameState EXCEPT ![c] = resetState(prev, mode, cpuColor)]
  /\ history' = [history EXCEPT ![c] = <<>>]
  /\ roomId' = [roomId EXCEPT ![c] = ""]
  /\ myColor' = [myColor EXCEPT ![c] = None]
  /\ pendingObs' = [pendingObs EXCEPT ![c] = NoObs]
  /\ connRef' = [connRef EXCEPT ![c] = connAfter(c)]
  /\ room' = roomAfterEffects(c, room)
  /\ UNCHANGED <<cpuStateRef, isHostRef, joinRef>>
  /\ Render(c, FALSE, FALSE)

(***************************************************************************)
(* hooks/useQuantumGame.ts: joinRoom, one action for each stretch between  *)
(* its awaits, and the callbacks of the two subscriptions                  *)
(***************************************************************************)
NoJoin == [stage |-> "idle", snapshot |-> NoRoom, hostColor |-> None]

\* the document createRoom sets
roomData ==
  [createInitialState EXCEPT
     !.gameMode = "Online",
     !.status = "waiting",
     !.hostColor = None,
     !.connections = {"host"}]

\* joinRoom creates the room for this snapshot
createsRoom(snapshot) ==
  \/ ~snapshot.exists
  \/ /\ snapshot.doc.status = "waiting"
     /\ "host" \notin snapshot.doc.connections
  \/ /\ snapshot.doc.status # "waiting"
     /\ "Black" \notin snapshot.doc.connections
     /\ "White" \notin snapshot.doc.connections

\* joinRoom(id) up to the answer of get(roomRef); one call of a client at
\* a time
joinRoom(c) ==
  /\ joinRef[c].stage = "idle"
  /\ roomId[c] = ""
  /\ lastCall' = Call("joinRoom", c, <<TheRoom>>)
  /\ joinRef' = [joinRef EXCEPT
       ![c] = [stage |-> "read",
               snapshot |-> [room EXCEPT !.inbox = NoRoom.inbox,
                                         !.version = NoRoom.version],
               hostColor |-> None]]
  /\ UNCHANGED <<gameState, history, timeoutRef, cpuStateRef, cpuTimer,
                 noWinnerTimer, revertTimer, roomId, myColor, isHostRef,
                 connRef, room, pendingObs>>

\* the branch joinRoom takes on the snapshot and the write that branch
\* awaits: set(roomRef, roomData), update(roomRef, {status, hostColor}),
\* or the alert
JoinWrite(c) ==
  LET snapshot == joinRef[c].snapshot IN
  /\ joinRef[c].stage = "read"
  /\ lastCall' = Call("joinRoom.write", c, <<TheRoom>>)
  /\ IF createsRoom(snapshot)
     THEN /\ room' = serverWrite(room, roomData, c, Listeners, FALSE)
          /\ joinRef' = [joinRef EXCEPT ![c].stage = "created"]
     ELSE IF snapshot.doc.status = "waiting"
     THEN \E hostColor \in Player :
            /\ room' = serverWrite(room,
                          [room.doc EXCEPT !.status = "playing",
                                           !.hostColor = hostColor],
                          c, Listeners, FALSE)
            /\ joinRef' = [joinRef EXCEPT ![c].stage = "joined",
                                          ![c].hostColor = hostColor]
     ELSE /\ joinRef' = [joinRef EXCEPT ![c] = NoJoin]
          /\ UNCHANGED room
  /\ UNCHANGED <<gameState, history, timeoutRef, cpuStateRef, cpuTimer,
                 noWinnerTimer, revertTimer, roomId, myColor, isHostRef,
                 connRef, pendingObs>>

\* guestColor that gives the guest the host's color
guestColorOfHost(hostColor) == hostColor

\* the color of the guest: the one the coin flip did not give the host
guestColor(hostColor) == Opponent(hostColor)

\* the setState calls after the awaited write
JoinDone(c) ==
  LET prev == gameState[c]
      created == joinRef[c].stage = "created"
      hostColor == joinRef[c].hostColor
  IN
  /\ joinRef[c].stage \in {"created", "joined"}
  /\ lastCall' = Call("joinRoom.done", c, <<TheRoom>>)
  /\ roomId' = [roomId EXCEPT ![c] = TheRoom]
  /\ isHostRef' = [isHostRef EXCEPT ![c] = created]
  /\ myColor' = [myColor EXCEPT
       ![c] = IF created THEN None ELSE guestColor(hostColor)]
  /\ gameState' = [gameState EXCEPT
       ![c] = IF created
              THEN [prev EXCEPT !.gameMode = "Online", !.status = "waiting"]
              ELSE [prev EXCEPT !.gameMode = "Online", !.status = "playing",
                                !.hostColor = hostColor]]
  /\ joinRef' = [joinRef EXCEPT ![c] = NoJoin]
  /\ connRef' = [connRef EXCEPT ![c] = connAfter(c)]
  /\ room' = roomAfterEffects(c, room)
  /\ UNCHANGED <<history, timeoutRef, cpuStateRef, pendingObs>>
  /\ Render(c, FALSE, FALSE)

\* syncedState that keeps the strength selected locally as well
syncedStateKeepingSelection(data, prev) ==
  [data EXCEPT !.confirmPlacementMode = prev.confirmPlacementMode,
               !.selectedStoneIndex = prev.selectedStoneIndex]

\* snapshot.val().board of a document whose board is the given one: the
\* database keeps no null, so a row without a stone and, in the other rows,
\* a cell without a stone are absent; a board without a stone is absent
\* altogether (<<>>)
snapshotBoard(board) ==
  [r \in {rc[1] : rc \in DOMAIN board} |->
     [c \in {rc[2] : rc \in {x \in DOMAIN board : x[1] = r}} |->
        board[<<r, c>>]]]

\* a cell of the grid without a stone (null)
NullCell == [empty |-> TRUE]

\* createInitialState().board as the grid of rows of cells
initialBoard == [r \in Index |-> [c \in Index |-> NullCell]]

\* syncedBoard that takes the rows as they were delivered
syncedBoardOfDeliveredRows(dataBoard) ==
  IF dataBoard # <<>>
  THEN [r \in DOMAIN dataBoard |->
          [c \in Index |->
             IF c \in DOMAIN dataBoard[r] THEN dataBoard[r][c] ELSE NullCell]]
  ELSE initialBoard

\* the grid the onValue callback builds from data.board
syncedBoard(dataBoard) ==
  IF dataBoard # <<>>
  THEN [r \in Index |->
          IF r \in DOMAIN dataBoard
          THEN [c \in Index |->
                  IF c \in DOMAIN dataBoard[r] THEN dataBoard[r][c] ELSE NullCell]
          ELSE initialBoard[r]]
  ELSE initialBoard

\* the BoardState of a grid: the stones by their coordinates
boardOfGrid(grid) ==
  [rc \in {x \in Coords : /\ x[1] \in DOMAIN grid
                           /\ x[2] \in DOMAIN grid[x[1]]
                           /\ grid[x[1]][x[2]] # NullCell} |->
     grid[rc[1]][rc[2]]]

\* the state the onValue callback sets: { ...data, board: syncedBoard,
\* confirmPlacementMode: prev.confirmPlacementMode }
syncedState(data, prev) ==
  [data EXCEPT
     !.board = boardOfGrid(syncedBoard(snapshotBoard(data.board))),
     !.confirmPlacementMode = prev.confirmPlacementMode]

\* the onValue callback of the room with the oldest event not yet handled
RoomValue(c) ==
  LET data == Head(room.inbox[c])
      prev == gameState[c]
  IN
  /\ roomId[c] # ""
  /\ room.inbox[c] # <<>>
  /\ lastCall' = Call("onValue", c, <<>>)
  /\ gameState' = [gameState EXCEPT ![c] = syncedState(data, prev)]
  /\ myColor' = IF /\ isHostRef[c]
                   /\ data.status = "playing"
                   /\ myColor[c] = None
                THEN [myColor EXCEPT ![c] = data.hostColor]
                ELSE myColor
  /\ UNCHANGED <<history, timeoutRef, cpuStateRef, roomId, isHostRef,
                 joinRef, pendingObs>>
  /\ connRef' = [connRef EXCEPT ![c] = connAfter(c)]
  /\ room' = roomAfterEffects(c, [room EXCEPT !.inbox[c] = Tail(@)])
  /\ Render(c, FALSE, FALSE)

\* the .info/connected callback: set(myConnectionRef, true)
Connected(c) ==
  /\ connRef[c].pending
  /\ lastCall' = Call("connected", c, <<>>)
  /\ connRef' = [connRef EXCEPT ![c].pending = FALSE]
  /\ room' = serverWrite(room,
                [room.doc EXCEPT !.connections = @ \cup {connRef[c].key}],
                c, Listeners, FALSE)
  /\ UNCHANGED <<gameState, history, timeoutRef, cpuStateRef, cpuTimer,
                 noWinnerTimer, revertTimer, roomId, myColor, isHostRef,
                 joinRef, pendingObs>>

(***************************************************************************)
(* utils/gameLogic.ts: getCpuMove, evaluatePoint, shouldCpuObserve.        *)
(* Scores are exact integers: evaluatePoint in tenths, the total score in  *)
(* hundredths.                                                             *)
(***************************************************************************)
Abs(x) == IF x < 0 THEN -x ELSE x

\* probability (tenths) that the stone of a cell resolves to targetColor
probOf(cell, targetColor) ==
  IF targetColor = "Black" THEN cell.probability ELSE 10 - cell.probability

\* the cells one sign of one direction adds to the line: steps 1..n
reach(board, r, c, dr, dc, sign, targetColor) ==
  LET ok(i) == /\ r + dr * i * sign \in Index
               /\ c + dc * i * sign \in Index
               /\ hasStone(board, <<r + dr * i * sign, c + dc * i * sign>>)
               /\ probOf(board[<<r + dr * i * sign, c + dc * i * sign>>],
                         targetColor) >= 4
      bad == {i \in 1 .. 4 : ~ok(i)}
  IN IF bad = {} THEN 4
     ELSE (CHOOSE i \in bad : \A j \in bad : i <= j) - 1

RECURSIVE probSum(_, _, _, _, _, _, _, _)
probSum(board, r, c, dr, dc, sign, targetColor, n) ==
  IF n = 0 THEN 0
  ELSE probOf(board[<<r + dr * n * sign, c + dc * n * sign>>], targetColor)
       + probSum(board, r, c, dr, dc, sign, targetColor, n - 1)

lineScore(board, r, c, dir, targetColor) ==
  LET nPos == reach(board, r, c, dir.r, dir.c, 1, targetColor)
      nNeg == reach(board, r, c, dir.r, dir.c, -1, targetColor)
      currentProbSum ==
        10 + probSum(board, r, c, dir.r, dir.c, 1, targetColor, nPos)
           + probSum(board, r, c, dir.r, dir.c, -1, targetColor, nNeg)
      stoneCount == 1 + nPos + nNeg
  IN IF stoneCount >= 5 THEN 10000 * currentProbSum
     ELSE IF stoneCount = 4 THEN 1000 * currentProbSum
     ELSE IF stoneCount = 3 THEN 100 * currentProbSum
     ELSE IF stoneCount = 2 THEN 10 * currentProbSum
     ELSE 0

evaluatePoint(board, r, c, me, isAttack) ==
  LET targetColor == IF isAttack THEN me ELSE Opponent(me)
  IN lineScore(board, r, c, directions[1], targetColor)
     + lineScore(board, r, c, directions[2], targetColor)
     + lineScore(board, r, c, directions[3], targetColor)
     + lineScore(board, r, c, directions[4], targetColor)

cpuScore(board, r, c, cpuColor) ==
  LET center == BOARD_SIZE \div 2
      dist == Abs(r - center) + Abs(c - center)
  IN evaluatePoint(board, r, c, cpuColor, TRUE) * 10
     + evaluatePoint(board, r, c, cpuColor, FALSE) * 12
     + (10 - dist) * 10

\* getCpuMove without the test that skips the occupied cells
getCpuMoveAnyCell(board, cpuColor) ==
  LET scored == {<<cpuScore(board, rc[1], rc[2], cpuColor), rc>> : rc \in Coords}
      scores == {s[1] : s \in scored}
      maxScore == CHOOSE m \in scores : \A x \in scores : x <= m
  IN {s[2] : s \in {t \in scored : t[1] = maxScore}}

\* the cells getCpuMove may return (one of bestMoves, drawn at random);
\* the empty set stands for null
getCpuMove(board, cpuColor) ==
  LET empty == {rc \in Coords : ~hasStone(board, rc)}
      scored == {<<cpuScore(board, rc[1], rc[2], cpuColor), rc>> : rc \in empty}
      scores == {s[1] : s \in scored}
      maxScore == CHOOSE m \in scores : \A x \in scores : x <= m
  IN IF empty = {} THEN {}
     ELSE {s[2] : s \in {t \in scored : t[1] = maxScore}}

\* the answers shouldCpuObserve may give: with observations left every
\* branch compares Math.random() with a threshold strictly between 0 and 1
shouldCpuObserve(board, cpuColor, observationCount_) ==
  IF observationCount_ <= 0 THEN {FALSE} ELSE {TRUE, FALSE}

(***************************************************************************)
(* hooks/useQuantumGame.ts: the CPU effect's two timers                    *)
(***************************************************************************)
cpuIndexChoices(currentState) ==
  IF currentState.currentPlayer = "Black"
  THEN (IF currentState.lastBlackStoneIndex = 0 THEN {1} ELSE {0, 1})
  ELSE (IF currentState.lastWhiteStoneIndex = 1 THEN {0} ELSE {0, 1})

CpuPlaceTimeout(c) ==
  LET currentState == gameState[c]
      targets == getCpuMove(currentState.board, currentState.currentPlayer)
  IN
  /\ cpuTimer[c] = "place"
  /\ lastCall' = Call("cpuPlaceTimer", c, <<>>)
  /\ cpuStateRef' = [cpuStateRef EXCEPT ![c] = "placed"]
  /\ history' = [history EXCEPT ![c] = Append(@, currentState)]
  /\ UNCHANGED <<timeoutRef, roomId, myColor, isHostRef, joinRef, connRef, room, pendingObs>>
  /\ IF targets = {}
     THEN /\ cpuTimer' = [cpuTimer EXCEPT ![c] = "none"]
          /\ UNCHANGED <<gameState, noWinnerTimer, revertTimer>>
     ELSE \E target \in targets, selectedIndex \in cpuIndexChoices(currentState) :
            LET probability ==
                  STONE_PROBABILITIES[currentState.currentPlayer][selectedIndex]
            IN /\ gameState' = [gameState EXCEPT ![c] = [currentState EXCEPT
                    !.board = withStone(currentState.board, target,
                                        Stone(probability)),
                    !.lastBlackStoneIndex =
                       IF currentState.currentPlayer = "Black"
                       THEN selectedIndex ELSE @,
                    !.lastWhiteStoneIndex =
                       IF currentState.currentPlayer # "Black"
                       THEN selectedIndex ELSE @,
                    !.isStonePlaced = TRUE]]
               /\ Render(c, FALSE, FALSE)

CpuDecideTimeout(c) ==
  LET gs == gameState[c]
      cpuObsCount == observationCount(gs, gs.currentPlayer)
  IN
  /\ cpuTimer[c] = "decide"
  /\ lastCall' = Call("cpuDecideTimer", c, <<>>)
  /\ UNCHANGED <<roomId, myColor, isHostRef, joinRef, connRef>>
  /\ \E decision \in shouldCpuObserve(gs.board, gs.currentPlayer, cpuObsCount) :
       IF decision
       THEN /\ cpuStateRef' = [cpuStateRef EXCEPT ![c] = "observing"]
            /\ observeBody(c)
            /\ IF observeRejected(c, gs)
               THEN /\ cpuTimer' = [cpuTimer EXCEPT ![c] = "none"]
                    /\ UNCHANGED <<noWinnerTimer, revertTimer>>
               ELSE Render(c, FALSE, FALSE)
       ELSE /\ cpuStateRef' = [cpuStateRef EXCEPT ![c] = "thinking"]
            /\ endTurnBody(c)
            /\ UNCHANGED <<timeoutRef, pendingObs>>
            /\ Render(c, FALSE, FALSE)

(***************************************************************************)
(* The turn phase of the specification, read off the flags of the state.   *)
(***************************************************************************)
turnPhase(gs) ==
  IF gs.isGameOver THEN "Over"
  ELSE IF gs.isCollapsing THEN "Collapsing"
  ELSE IF gs.showNoWinnerMessage \/ gs.isObserving THEN "ShowingNoWinner"
  ELSE IF gs.isReverting THEN "Reverting"
  ELSE IF gs.isStonePlaced THEN "Placed"
  ELSE "AwaitingPlacement"

(***************************************************************************)
(* One tab playing locally.  The presentation layer (App.tsx) calls the    *)
(* handlers of the hook in any order; the timers fire when pending.        *)
(***************************************************************************)
Init ==
  /\ gameState = [c \in Tabs |-> createInitialState]
  /\ history = [c \in Tabs |-> <<>>]
  /\ timeoutRef = [c \in Tabs |-> FALSE]
  /\ cpuStateRef = [c \in Tabs |-> "thinking"]
  /\ cpuTimer = [c \in Tabs |-> "none"]
  /\ noWinnerTimer = [c \in Tabs |-> FALSE]
  /\ revertTimer = [c \in Tabs |-> FALSE]
  /\ roomId = [c \in Tabs |-> ""]
  /\ myColor = [c \in Tabs |-> None]
  /\ isHostRef = [c \in Tabs |-> FALSE]
  /\ joinRef = [c \in Tabs |-> NoJoin]
  /\ connRef = [c \in Tabs |-> NoConn]
  /\ room = NoRoom
  /\ lastCall = Call("init", Me, <<>>)
  /\ pendingObs = [c \in Tabs |-> NoObs]

\* the cells the presentation layer clicks on
PlayCells == {<<7, 5 + k>> : k \in 0 .. (NumPlayCells - 1)}

\* the arguments App.tsx passes to resetGame to stay in local two-player mode
ResetArgsPvP == {<<"PvP", None>>, <<Undefined, Undefined>>}

\* the arguments App.tsx passes to resetGame
ResetArgs == ResetArgsPvP \cup {<<"PvE", "White">>, <<"PvE", "Black">>}

HistoryWithin(n) == Len(history'[Me]) <= n

\* the scripted opening, of the given number of history frames, is over
played(opening) == Len(history[Me]) >= opening

\* free local two-player play on the cells, after the opening and with at
\* most cap history frames
LocalPlay(opening, cells, cap) ==
  \/ /\ played(opening)
     /\ \E rc \in cells : placeStone(Me, rc[1], rc[2]) /\ HistoryWithin(cap)
  \/ /\ played(opening)
     /\ \E index \in {0, 1} : selectStone(Me, index)
  \/ /\ played(opening)
     /\ undo(Me)
  \/ /\ played(opening)
     /\ endTurn(Me) /\ HistoryWithin(cap)
  \/ /\ played(opening)
     /\ observeBoard(Me) /\ HistoryWithin(cap)
  \/ /\ played(opening)
     /\ \E args \in ResetArgsPvP : resetGame(Me, args[1], args[2])

Timers ==
  \/ CollapseTimeout(Me)
  \/ NoWinnerTimeout(Me)
  \/ RevertTimeout(Me)

Next ==
  \/ LocalPlay(0, PlayCells, MaxHistory)
  \/ Timers

Spec == Init /\ [][Next]_vars

NextDeep ==
  \/ LocalPlay(0, PlayCells, MaxDeepHistory)
  \/ Timers

SpecDeep == Init /\ [][NextDeep]_vars

\* the two cells of the end-to-end scenario, open to free local play
ScenarioCells == {<<7, 7>>, <<7, 8>>}

NextScenario ==
  \/ LocalPlay(0, ScenarioCells, MaxScenarioHistory)
  \/ Timers

SpecScenario == Init /\ [][NextScenario]_vars

NextConfirm ==
  \/ LocalPlay(0, PlayCells, MaxConfirmHistory)
  \/ toggleConfirmMode(Me)
  \/ Timers

SpecConfirm == Init /\ [][NextConfirm]_vars

(***************************************************************************)
(* The line scenario: the two players first fill, by regular turns (place  *)
(* a stone, end the turn), all but one cell of a row of NumLineCells cells *)
(* and then play freely for MaxLineFree more history frames.               *)
(***************************************************************************)
LineCells == {<<7, 5 + k>> : k \in 0 .. (NumLineCells - 1)}

LineOpening == 2 * (NumLineCells - 1)

nextLineCell == <<7, 5 + Cardinality(StoneCells(gameState[Me].board))>>

NextLine ==
  \/ /\ ~played(LineOpening)
     /\ ~gameState[Me].isStonePlaced
     /\ placeStone(Me, nextLineCell[1], nextLineCell[2])
  \/ /\ ~played(LineOpening)
     /\ gameState[Me].isStonePlaced
     /\ endTurn(Me)
  \/ LocalPlay(LineOpening, LineCells, LineOpening + MaxLineFree)
  \/ Timers

SpecLine == Init /\ [][NextLine]_vars

(***************************************************************************)
(* The quota scenario: by regular turns (Black places and observes, the    *)
(* timers run, White places and ends the turn) Black first uses all of its *)
(* observations; from the turn of Black that follows, the two players      *)
(* place, end turns and observe freely for MaxQuotaFree more history       *)
(* frames.  No two of the cells are neighbours, so nobody wins.            *)
(***************************************************************************)
QuotaCell(k) == <<2 * (k \div 7), 2 * (k % 7)>>

QuotaOpening == 4 * createInitialState.blackObservationCount

QuotaCells ==
  {QuotaCell((QuotaOpening \div 2) + k) : k \in 0 .. (NumQuotaCells - 1)}

nextQuotaCell == QuotaCell(Cardinality(StoneCells(gameState[Me].board)))

quotaIdle ==
  LET gs == gameState[Me]
  IN ~gs.isCollapsing /\ ~gs.showNoWinnerMessage /\ ~gs.isReverting

NextQuota ==
  \/ /\ ~played(QuotaOpening) /\ quotaIdle
     /\ ~gameState[Me].isStonePlaced
     /\ placeStone(Me, nextQuotaCell[1], nextQuotaCell[2])
  \/ /\ ~played(QuotaOpening) /\ quotaIdle
     /\ gameState[Me].isStonePlaced
     /\ gameState[Me].currentPlayer = "Black"
     /\ observeBoard(Me)
  \/ /\ ~played(QuotaOpening) /\ quotaIdle
     /\ gameState[Me].isStonePlaced
     /\ gameState[Me].currentPlayer = "White"
     /\ endTurn(Me)
  \/ /\ played(QuotaOpening)
     /\ \E rc \in QuotaCells : placeStone(Me, rc[1], rc[2])
     /\ HistoryWithin(QuotaOpening + MaxQuotaFree)
  \/ /\ played(QuotaOpening)
     /\ endTurn(Me)
     /\ HistoryWithin(QuotaOpening + MaxQuotaFree)
  \/ /\ played(QuotaOpening)
     /\ observeBoard(Me)
     /\ HistoryWithin(QuotaOpening + MaxQuotaFree)
  \/ Timers

SpecQuota == Init /\ [][NextQuota]_vars

(***************************************************************************)
(* Play against the CPU: the human picks the mode and the CPU's color with *)
(* resetGame, then calls the handlers in any order while the CPU's timers  *)
(* fire when pending.                                                      *)
(***************************************************************************)
PveCells == {<<7, 5 + k>> : k \in 1 .. NumPveCells}

inPvE == gameState[Me].gameMode = "PvE"

NextPvE ==
  \/ \E args \in ResetArgs :
       /\ inPvE \/ args[1] = "PvE"
       /\ resetGame(Me, args[1], args[2])
  \/ /\ inPvE
     /\ \E rc \in PveCells : placeStone(Me, rc[1], rc[2])
     /\ HistoryWithin(MaxPveHistory)
  \/ /\ inPvE
     /\ undo(Me)
  \/ /\ inPvE
     /\ endTurn(Me)
     /\ HistoryWithin(MaxPveHistory)
  \/ /\ inPvE
     /\ observeBoard(Me)
     /\ HistoryWithin(MaxPveHistory)
  \/ CpuPlaceTimeout(Me) /\ HistoryWithin(MaxPveHistory)
  \/ CpuDecideTimeout(Me) /\ HistoryWithin(MaxPveHistory)
  \/ Timers

SpecPvE == Init /\ [][NextPvE]_vars

(***************************************************************************)
(* getCpuMove on its own: the CPU's placement timer fires on boards drawn   *)
(* from two families, the boards with stones on some of a few cells only   *)
(* and the boards with stones everywhere but on some of these cells (the   *)
(* full board among them).                                                 *)
(***************************************************************************)
MoveCellSeq ==
  <<<<7, 7>>, <<7, 8>>, <<0, 0>>, <<14, 14>>, <<0, 14>>, <<8, 8>>>>

MoveCells == {MoveCellSeq[i] : i \in 1 .. NumMoveCells}

\* a stone of one color or the other by the parity of the cell
patternStone(rc, k) ==
  Stone(IF (rc[1] + rc[2] + k) % 2 = 0
        THEN STONE_PROBABILITIES["Black"][k]
        ELSE STONE_PROBABILITIES["White"][k])

MoveBoards ==
  {[rc \in (Coords \ free) |-> patternStone(rc, k)] :
     free \in SUBSET MoveCells, k \in {0, 1}}
  \cup
  UNION {[taken -> {Stone(STONE_PROBABILITIES["Black"][0]),
                    Stone(STONE_PROBABILITIES["White"][0])}] :
           taken \in SUBSET MoveCells}

InitCpuMove ==
  /\ \E board \in MoveBoards, cpuColor \in Player :
       gameState = [c \in Tabs |->
         IF c = Me
         THEN [createInitialState EXCEPT !.gameMode = "PvE",
                                         !.cpuColor = cpuColor,
                                         !.currentPlayer = cpuColor,
                                         !.board = board]
         ELSE createInitialState]
  /\ history = [c \in Tabs |-> <<>>]
  /\ timeoutRef = [c \in Tabs |-> FALSE]
  /\ cpuStateRef = [c \in Tabs |-> "thinking"]
  /\ cpuTimer = [c \in Tabs |-> IF c = Me THEN "place" ELSE "none"]
  /\ noWinnerTimer = [c \in Tabs |-> FALSE]
  /\ revertTimer = [c \in Tabs |-> FALSE]
  /\ roomId = [c \in Tabs |-> ""]
  /\ myColor = [c \in Tabs |-> None]
  /\ isHostRef = [c \in Tabs |-> FALSE]
  /\ joinRef = [c \in Tabs |-> NoJoin]
  /\ connRef = [c \in Tabs |-> NoConn]
  /\ room = NoRoom
  /\ lastCall = Call("init", Me, <<>>)
  /\ pendingObs = [c \in Tabs |-> NoObs]

NextCpuMove == CpuPlaceTimeout(Me)

SpecCpuMove == InitCpuMove /\ [][NextCpuMove]_vars

(***************************************************************************)
(* The win scenario: by regular turns the two players lay out one of four  *)
(* figures (a row; a corner of two arms of winning length that share their *)
(* first cell; two such columns; two such diagonals that cross), and the   *)
(* mover of the last stone observes it.  The collapse timer then hands     *)
(* checkWin every coloring of the figure.                                  *)
(***************************************************************************)
WinRow == [k \in 1 .. NumWinRowCells |-> <<7, 1 + k>>]

WinCorner ==
  [k \in 1 .. (2 * WinLength - 1) |->
     IF k <= WinLength THEN <<0, k - 1>> ELSE <<k - WinLength, 0>>]

WinColumns ==
  [k \in 1 .. (2 * WinLength) |->
     IF k <= WinLength THEN <<k - 1, 12>> ELSE <<k - WinLength - 1, 14>>]

WinCross ==
  LET diagonal == [k \in 1 .. WinLength |-> <<8 + k, 3 + k>>]
      antiDiagonal == [k \in 1 .. WinLength |-> <<8 + k, 4 + WinLength - k>>]
      apart(rc) == \A k \in 1 .. WinLength : diagonal[k] # rc
  IN diagonal \o SelectSeq(antiDiagonal, apart)

WinLayouts == {WinRow, WinCorner, WinColumns, WinCross}

\* the stones on the board are the first n cells of the figure
laidOut(layout, n) ==
  /\ n <= Len(layout)
  /\ StoneCells(gameState[Me].board) = {layout[k] : k \in 1 .. n}

stonesOnBoard == Cardinality(StoneCells(gameState[Me].board))

NextWin ==
  \/ /\ turnPhase(gameState[Me]) = "AwaitingPlacement"
     /\ \E layout \in WinLayouts :
          /\ laidOut(layout, stonesOnBoard)
          /\ stonesOnBoard < Len(layout)
          /\ placeStone(Me, layout[stonesOnBoard + 1][1],
                        layout[stonesOnBoard + 1][2])
  \/ /\ turnPhase(gameState[Me]) = "Placed"
     /\ \E layout \in WinLayouts :
          laidOut(layout, stonesOnBoard) /\ stonesOnBoard < Len(layout)
     /\ endTurn(Me)
  \/ /\ turnPhase(gameState[Me]) = "Placed"
     /\ \E layout \in WinLayouts : laidOut(layout, Len(layout))
     /\ observeBoard(Me)
  \/ Timers

SpecWin == Init /\ [][NextWin]_vars

(***************************************************************************)
(* Two tabs in one room.  Me may have played a stone in local PvP before   *)
(* it joins, so that it enters the room with a history.  Me creates the    *)
(* room and Peer joins it as the guest; once both are connected under      *)
(* their colors the two clients play in any order, and Me may leave with   *)
(* a reset, until the room has received MaxRoomWrites more writes.  undo   *)
(* may be clicked at any time in Online mode.                              *)
(***************************************************************************)
OnlineCells == {<<7, 6 + k>> : k \in 1 .. NumOnlineCells}

inOnline(c) == gameState[c].gameMode = "Online"

\* the writes of the opening: createRoom (its document already holds the
\* host's connection), the guest's update, the removal of the host's
\* connection when the host learns its color, and the connection of
\* either color
OpeningWrites == 5

opened == room.version >= OpeningWrites

RoomWritesWithin(n) == room'.version <= OpeningWrites + n

\* the next joinRoom call of the opening: Me before the room exists, Peer
\* once the host is connected
opensRoom(c) ==
  \/ c = Me /\ ~room.exists
  \/ c = Peer /\ room.doc.connections = {"host"} /\ roomId[Peer] = ""

NextOnline ==
  \/ /\ ~room.exists /\ ~inOnline(Me) /\ joinRef[Me] = NoJoin
     /\ \E rc \in OnlineCells : placeStone(Me, rc[1], rc[2])
     /\ HistoryWithin(MaxStaleHistory)
  \/ \E c \in Tabs :
       \/ /\ opensRoom(c)
          /\ joinRoom(c)
       \/ JoinWrite(c) /\ RoomWritesWithin(MaxRoomWrites)
       \/ JoinDone(c) /\ RoomWritesWithin(MaxRoomWrites)
       \/ RoomValue(c) /\ RoomWritesWithin(MaxRoomWrites)
       \/ Connected(c) /\ RoomWritesWithin(MaxRoomWrites)
       \/ /\ opened /\ inOnline(c)
          /\ \E rc \in OnlineCells : placeStone(c, rc[1], rc[2])
          /\ RoomWritesWithin(MaxRoomWrites)
       \/ /\ opened /\ inOnline(c)
          /\ endTurn(c)
          /\ RoomWritesWithin(MaxRoomWrites)
       \/ /\ opened /\ inOnline(c)
          /\ observeBoard(c)
          /\ RoomWritesWithin(MaxRoomWrites)
       \/ /\ inOnline(c)
          /\ undo(c)
       \/ /\ opened /\ inOnline(c) /\ c = Me
          /\ resetGame(c, Undefined, Undefined)
          /\ RoomWritesWithin(MaxRoomWrites)
       \/ CollapseTimeout(c) /\ RoomWritesWithin(MaxRoomWrites)
       \/ NoWinnerTimeout(c) /\ RoomWritesWithin(MaxRoomWrites)
       \/ RevertTimeout(c) /\ RoomWritesWithin(MaxRoomWrites)

SpecOnline == Init /\ [][NextOnline]_vars

(***************************************************************************)
(* Two tabs joining one room in any order, each joinRoom call interleaved  *)
(* with the other's, and clicking the board and the controls from the      *)
(* moment they are in Online mode, until the room has received             *)
(* MaxJoinWrites writes.                                                   *)
(***************************************************************************)
WritesWithin(n) == room'.version <= n

NextJoin ==
  \E c \in Tabs :
    \/ joinRoom(c)
    \/ JoinWrite(c) /\ WritesWithin(MaxJoinWrites)
    \/ JoinDone(c) /\ WritesWithin(MaxJoinWrites)
    \/ RoomValue(c) /\ WritesWithin(MaxJoinWrites)
    \/ Connected(c) /\ WritesWithin(MaxJoinWrites)
    \/ /\ inOnline(c)
       /\ \E index \in {0, 1} : selectStone(c, index)
    \/ /\ inOnline(c)
       /\ \E rc \in OnlineCells : placeStone(c, rc[1], rc[2])
       /\ WritesWithin(MaxJoinWrites)
    \/ /\ inOnline(c)
       /\ endTurn(c)
       /\ WritesWithin(MaxJoinWrites)
    \/ /\ inOnline(c)
       /\ observeBoard(c)
       /\ WritesWithin(MaxJoinWrites)
    \/ CollapseTimeout(c) /\ WritesWithin(MaxJoinWrites)

SpecJoin == Init /\ [][NextJoin]_vars

(***************************************************************************)
(* Two tabs in one room after the opening of SpecOnline: the players place *)
(* and observe in phase Placed, and the collapse, no-winner and revert     *)
(* timers of both tabs fire and the room's value events arrive in any      *)
(* order, until the room has received MaxRevertWrites more writes.         *)
(***************************************************************************)
NextRevert ==
  \E c \in Tabs :
    \/ /\ opensRoom(c)
       /\ joinRoom(c)
    \/ JoinWrite(c)
    \/ JoinDone(c)
    \/ RoomValue(c) /\ RoomWritesWithin(MaxRevertWrites)
    \/ Connected(c)
    \/ /\ opened
       /\ \E rc \in ScenarioCells : placeStone(c, rc[1], rc[2])
       /\ RoomWritesWithin(MaxRevertWrites)
    \/ /\ opened
       /\ turnPhase(gameState[c]) = "Placed"
       /\ observeBoard(c)
       /\ RoomWritesWithin(MaxRevertWrites)
    \/ CollapseTimeout(c) /\ RoomWritesWithin(MaxRevertWrites)
    \/ NoWinnerTimeout(c) /\ RoomWritesWithin(MaxRevertWrites)
    \/ RevertTimeout(c) /\ RoomWritesWithin(MaxRevertWrites)

SpecRevert == Init /\ [][NextRevert]_vars

(***************************************************************************)
(* A third browser calls joinRoom on the room of the two tabs.  Of the     *)
(* third client only what its call does to the room is kept: the read and  *)
(* the write that follows it, here with nothing in between.                *)
(***************************************************************************)
Third == "tab3"

joinRoomByThird ==
  LET snapshot == room IN
  /\ room.exists
  /\ lastCall' = Call("joinRoom", Third, <<TheRoom>>)
  /\ room' =
       IF createsRoom(snapshot)
       THEN serverWrite(room, roomData, Third, Listeners, FALSE)
       ELSE IF snapshot.doc.status = "waiting"
       THEN serverWrite(room,
                        [room.doc EXCEPT !.status = "playing",
                                         !.hostColor = "Black"],
                        Third, Listeners, FALSE)
       ELSE room
  /\ UNCHANGED <<gameState, history, timeoutRef, cpuStateRef, cpuTimer,
                 noWinnerTimer, revertTimer, roomId, myColor, isHostRef,
                 joinRef, connRef, pendingObs>>

NextThird ==
  \/ \E c \in Tabs :
       \/ /\ opensRoom(c)
          /\ joinRoom(c)
       \/ JoinWrite(c) /\ WritesWithin(MaxThirdWrites)
       \/ JoinDone(c) /\ WritesWithin(MaxThirdWrites)
       \/ RoomValue(c) /\ WritesWithin(MaxThirdWrites)
       \/ Connected(c) /\ WritesWithin(MaxThirdWrites)
       \/ /\ inOnline(c)
          /\ \E rc \in OnlineCells : placeStone(c, rc[1], rc[2])
          /\ WritesWithin(MaxThirdWrites)
       \/ /\ inOnline(c)
          /\ endTurn(c)
          /\ WritesWithin(MaxThirdWrites)
  \/ joinRoomByThird /\ WritesWithin(MaxThirdWrites)

SpecThird == Init /\ [][NextThird]_vars

(***************************************************************************)
(* Two tabs in one room after the opening of SpecOnline, selecting a       *)
(* strength, switching the confirmation mode, placing and ending turns     *)
(* while the room's value events arrive, until the room has received       *)
(* MaxSyncWrites more writes.                                              *)
(***************************************************************************)
NextSync ==
  \E c \in Tabs :
    \/ /\ opensRoom(c)
       /\ joinRoom(c)
    \/ JoinWrite(c)
    \/ JoinDone(c)
    \/ RoomValue(c) /\ RoomWritesWithin(MaxSyncWrites)
    \/ Connected(c)
    \/ /\ opened
       /\ \E index \in {0, 1} : selectStone(c, index)
    \/ /\ opened
       /\ toggleConfirmMode(c)
    \/ /\ opened
       /\ \E rc \in OnlineCells : placeStone(c, rc[1], rc[2])
       /\ RoomWritesWithin(MaxSyncWrites)
    \/ /\ opened
       /\ endTurn(c)
       /\ RoomWritesWithin(MaxSyncWrites)

SpecSync == Init /\ [][NextSync]_vars

(***************************************************************************)
(* Properties.                                                             *)
(***************************************************************************)
\* the step is a call of the handler, or the firing of the timer, op
Called(op) == lastCall'.op = op

\* the cell the placeStone call of the step was given
target == <<lastCall'.args[1], lastCall'.args[2]>>

\* the step leaves the game state and the undo history as they were
StateAndHistoryKept == gameState' = gameState /\ history' = history

\* C1: placeStone(row, col) leaves the game state and the undo history
\* unchanged whenever the target cell is occupied, a stone has already been
\* placed this turn, or the phase is Collapsing, ShowingNoWinner, Reverting
\* or Over.
PlaceStoneIgnoredWhenIllegal ==
  [][(/\ Called("placeStone")
      /\ \/ hasStone(gameState[Me].board, target)
         \/ gameState[Me].isStonePlaced
         \/ turnPhase(gameState[Me]) \in
              {"Collapsing", "ShowingNoWinner", "Reverting", "Over"})
       => StateAndHistoryKept]_vars

\* the placeStone call of the step commits a placement: the phase is
\* AwaitingPlacement, the cell is empty and, in confirmation mode, it is the
\* pending cell
CommitsPlacement ==
  /\ Called("placeStone")
  /\ turnPhase(gameState[Me]) = "AwaitingPlacement"
  /\ ~hasStone(gameState[Me].board, target)
  /\ gameState[Me].confirmPlacementMode => gameState[Me].pendingStone = target

\* C2: an accepted placeStone(row, col) in AwaitingPlacement adds exactly
\* one stone, at (row, col), with the probability of the current player's
\* selected strength and no observed color; it records the strength as the
\* player's last one, sets the placed flag and clears the pending cell; it
\* leaves currentPlayer, both observation counts, the other color's last
\* strength and every other cell unchanged, and (local modes) appends
\* exactly the state before the placement to the history.
PlaceStoneEffect ==
  [][CommitsPlacement =>
       LET prev == gameState[Me]
           new == gameState'[Me]
           mover == prev.currentPlayer
       IN /\ DOMAIN new.board = DOMAIN prev.board \cup {target}
          /\ Cardinality(DOMAIN new.board) = Cardinality(DOMAIN prev.board) + 1
          /\ new.board[target] =
               [probability |->
                  STONE_PROBABILITIES[mover][prev.selectedStoneIndex],
                observedColor |-> None]
          /\ \A rc \in DOMAIN prev.board : new.board[rc] = prev.board[rc]
          /\ IF mover = "Black"
             THEN /\ new.lastBlackStoneIndex = prev.selectedStoneIndex
                  /\ new.lastWhiteStoneIndex = prev.lastWhiteStoneIndex
             ELSE /\ new.lastWhiteStoneIndex = prev.selectedStoneIndex
                  /\ new.lastBlackStoneIndex = prev.lastBlackStoneIndex
          /\ new.isStonePlaced
          /\ new.pendingStone = <<>>
          /\ new.currentPlayer = prev.currentPlayer
          /\ new.blackObservationCount = prev.blackObservationCount
          /\ new.whiteObservationCount = prev.whiteObservationCount
          /\ history'[Me] = Append(history[Me], prev)]_vars

\* a placement was committed through the confirmation mode: the stone is
\* White's weaker one, on a board that already held a stone
PlaceStoneEffectWitness ==
  /\ lastCall.op = "placeStone"
  /\ gameState[Me].confirmPlacementMode
  /\ gameState[Me].isStonePlaced
  /\ gameState[Me].currentPlayer = "White"
  /\ Cardinality(StoneCells(gameState[Me].board)) = 2
  /\ hasStone(gameState[Me].board, <<lastCall.args[1], lastCall.args[2]>>)
  /\ gameState[Me].board[<<lastCall.args[1], lastCall.args[2]>>].probability
       = STONE_PROBABILITIES["White"][0]
  /\ gameState[Me].lastWhiteStoneIndex = 0
  /\ Len(history[Me]) > 0
  /\ history[Me][Len(history[Me])].pendingStone
       = <<lastCall.args[1], lastCall.args[2]>>

\* the step is neither an undo nor a reset
NotUndoNorReset == ~Called("undo") /\ ~Called("resetGame")

\* C3: at most one stone is placed per turn.  Apart from undo and reset, a
\* step adds at most one stone; it adds one only while the placed flag is
\* clear, sets the flag and keeps currentPlayer; a change of currentPlayer
\* clears the flag and adds no stone; and any other step keeps the flag.
\* So the flag is set exactly when a stone was placed since currentPlayer
\* last changed, and no second stone is placed before it changes again.
OneStonePerTurn ==
  [][NotUndoNorReset =>
       LET prev == gameState[Me]
           new == gameState'[Me]
           stones == Cardinality(StoneCells(prev.board))
           stonesAfter == Cardinality(StoneCells(new.board))
       IN /\ StoneCells(prev.board) \subseteq StoneCells(new.board)
          /\ stonesAfter <= stones + 1
          /\ stonesAfter = stones + 1 =>
               /\ ~prev.isStonePlaced
               /\ new.isStonePlaced
               /\ new.currentPlayer = prev.currentPlayer
          /\ new.currentPlayer # prev.currentPlayer =>
               /\ ~new.isStonePlaced
               /\ stonesAfter = stones
          /\ (new.currentPlayer = prev.currentPlayer /\ stonesAfter = stones)
               => new.isStonePlaced = prev.isStonePlaced]_vars

\* a second placeStone in the same turn was ignored: one stone, flag set
OneStonePerTurnWitness ==
  /\ lastCall.op = "placeStone"
  /\ gameState[Me].isStonePlaced
  /\ Cardinality(StoneCells(gameState[Me].board)) = 1
  /\ ~hasStone(gameState[Me].board, <<lastCall.args[1], lastCall.args[2]>>)
  /\ turnPhase(gameState[Me]) = "Placed"

\* C4: endTurn() is accepted only in phase Placed: called in any other
\* phase (no stone placed yet, Collapsing, ShowingNoWinner, Reverting, Over)
\* it leaves the game state, currentPlayer included, and the history
\* unchanged.
EndTurnOnlyWhenPlaced ==
  [][(Called("endTurn") /\ turnPhase(gameState[Me]) # "Placed")
       => StateAndHistoryKept]_vars

\* C5: in phase Over every action other than reset (placeStone, endTurn,
\* observe, selectStone, undo, every timer firing) leaves winner,
\* winningLine, board and currentPlayer fixed.
OverIsTerminal ==
  [][(gameState[Me].isGameOver /\ ~Called("resetGame")) =>
       /\ gameState'[Me].winner = gameState[Me].winner
       /\ gameState'[Me].winningLine = gameState[Me].winningLine
       /\ gameState'[Me].board = gameState[Me].board
       /\ gameState'[Me].currentPlayer = gameState[Me].currentPlayer]_vars

\* C6: the observation count of each color is between 0 and the quota 5
\* in every reachable state.
ObservationCountInRange ==
  /\ gameState[Me].blackObservationCount \in 0 .. 5
  /\ gameState[Me].whiteObservationCount \in 0 .. 5

\* C7: the resolution of an observation takes exactly 1 from the count of
\* the color whose observe() call started it and leaves the other color's
\* count unchanged, whatever was called since the collapse began.
ObservationChargedToInitiator ==
  [][(/\ Called("collapseTimer")
      /\ gameState[Me].isCollapsing
      /\ pendingObs[Me].active) =>
       LET by == pendingObs[Me].by
       IN /\ observationCount(gameState'[Me], by)
               = observationCount(gameState[Me], by) - 1
          /\ observationCount(gameState'[Me], Opponent(by))
               = observationCount(gameState[Me], Opponent(by))]_vars

\* C8: observe() is a no-op (game state and history unchanged, no collapse
\* timer scheduled) when the current player has no observation left or no
\* stone has been placed this turn.
ObserveIgnored ==
  [][(/\ Called("observeBoard")
      /\ \/ observationCount(gameState[Me], gameState[Me].currentPlayer) = 0
         \/ ~gameState[Me].isStonePlaced) =>
       /\ StateAndHistoryKept
       /\ timeoutRef' = timeoutRef]_vars

\* observe() was called, and ignored, in phase Placed with no observation
\* left
ObserveIgnoredWitness ==
  /\ lastCall.op = "observeBoard"
  /\ turnPhase(gameState[Me]) = "Placed"
  /\ observationCount(gameState[Me], gameState[Me].currentPlayer) = 0
  /\ ~timeoutRef[Me]

\* C9: when the collapse timer resolves an observation, every stone on the
\* board gets an observed color, every empty cell stays empty and every
\* probability is unchanged; afterwards the phase is Over, with the winner
\* of the win detector, if it returns one, and ShowingNoWinner otherwise.
CollapseResolvesEveryStone ==
  [][(Called("collapseTimer") /\ gameState[Me].isCollapsing) =>
       LET prev == gameState[Me]
           new == gameState'[Me]
           won == checkWin(new.board, prev.currentPlayer)
       IN /\ DOMAIN new.board = DOMAIN prev.board
          /\ \A rc \in DOMAIN prev.board :
               /\ new.board[rc].observedColor \in Player
               /\ new.board[rc].probability = prev.board[rc].probability
          /\ IF won.winner # None
             THEN /\ turnPhase(new) = "Over"
                  /\ new.winner = won.winner
             ELSE /\ turnPhase(new) = "ShowingNoWinner"
                  /\ new.winner = None]_vars

\* an observation of five stones has resolved with a winner
CollapseResolvesEveryStoneWitness ==
  /\ lastCall.op = "collapseTimer"
  /\ turnPhase(gameState[Me]) = "Over"
  /\ gameState[Me].winner \in Player
  /\ Cardinality(StoneCells(gameState[Me].board)) = NumLineCells
  /\ \A rc \in StoneCells(gameState[Me].board) :
       gameState[Me].board[rc].observedColor = gameState[Me].winner

\* C10: after an observation without a winner, the reversion gives back the
\* board of immediately before the observation: the same cells occupied,
\* every probability unchanged, no stone with an observed color.
RevertRoundTrip ==
  [][(Called("noWinnerTimer") /\ pendingObs[Me].active) =>
       /\ gameState'[Me].board = pendingObs[Me].board
       /\ \A rc \in StoneCells(gameState'[Me].board) :
            gameState'[Me].board[rc].observedColor = None]_vars

\* a full row of stones has been observed, without a winner, and reverted
RevertRoundTripWitness ==
  /\ lastCall.op = "noWinnerTimer"
  /\ gameState[Me].isReverting
  /\ Cardinality(StoneCells(gameState[Me].board)) = NumLineCells
  /\ \A rc \in StoneCells(gameState[Me].board) :
       gameState[Me].board[rc].observedColor = None

\* the phases an observation without a winner may go to from phase p
NextPhases(p) ==
  IF p = "Collapsing" THEN {"Collapsing", "ShowingNoWinner", "Over"}
  ELSE IF p = "ShowingNoWinner" THEN {"ShowingNoWinner", "Reverting"}
  ELSE IF p = "Reverting" THEN {"Reverting", "AwaitingPlacement"}
  ELSE {}

\* C11: from an accepted observe() until the turn completes, every step
\* other than undo and reset keeps the phase or moves it on in the order
\* Collapsing, ShowingNoWinner, Reverting, AwaitingPlacement (Over when the
\* collapse finds a winner), and the step that arrives in AwaitingPlacement
\* leaves the opponent of the observer as currentPlayer with the placed flag
\* clear.
NoWinnerSequence ==
  [][(pendingObs[Me].active /\ NotUndoNorReset) =>
       LET prev == gameState[Me]
           new == gameState'[Me]
       IN /\ turnPhase(new) \in NextPhases(turnPhase(prev))
          /\ (turnPhase(prev) = "Reverting"
                /\ turnPhase(new) = "AwaitingPlacement") =>
               /\ new.currentPlayer = Opponent(pendingObs[Me].by)
               /\ ~new.isStonePlaced]_vars

\* the five cells from rc along direction d all hold a stone observed as color
runFrom(board, rc, d, color) ==
  \A k \in 0 .. 4 :
    /\ rc[1] + directions[d].r * k \in Index
    /\ rc[2] + directions[d].c * k \in Index
    /\ observedColorAt(board, <<rc[1] + directions[d].r * k,
                                rc[2] + directions[d].c * k>>) = color

\* the board holds five or more stones in a row observed as color
HasRun(board, color) ==
  \E rc \in StoneCells(board), d \in 1 .. 4 : runFrom(board, rc, d, color)

\* the board without the observed color of the stone at rc
unobservedAt(board, rc) ==
  [x \in DOMAIN board |->
     IF x = rc THEN [board[x] EXCEPT !.observedColor = None] ELSE board[x]]

\* the boards handed to checkWin: the board of the state and the same board
\* with one stone left unobserved
WinInputs ==
  {gameState[Me].board}
    \cup {unobservedAt(gameState[Me].board, rc) :
            rc \in StoneCells(gameState[Me].board)}

\* C12: for every board and observer, checkWin returns the winner c only if
\* five or more stones observed as c lie in a row along one of the four
\* axes, and returns no winner when neither color has such a row; so stones
\* without an observed color never count and a row of exactly four never
\* wins.
WinOnlyByRunOfFive ==
  \A board \in WinInputs, observer \in Player :
    LET winner == checkWin(board, observer).winner
    IN /\ winner # None => HasRun(board, winner)
       /\ (~HasRun(board, "Black") /\ ~HasRun(board, "White"))
            => winner = None

\* the row was observed as four Black stones, a White one, four Black ones
\* and a last White one: nobody has won
WinOnlyByRunOfFiveWitness ==
  /\ lastCall.op = "collapseTimer"
  /\ gameState[Me].showNoWinnerMessage
  /\ gameState[Me].winner = None
  /\ StoneCells(gameState[Me].board) = {WinRow[k] : k \in 1 .. Len(WinRow)}
  /\ \A k \in 1 .. Len(WinRow) :
       gameState[Me].board[WinRow[k]].observedColor =
         IF k % 5 = 0 THEN "White" ELSE "Black"

\* C13: on a board where both colors have five or more stones in a row,
\* checkWin returns the observer it was given as the winner; where exactly
\* one color has such a row, that color wins whoever the observer is.
DualCompletionToObserver ==
  \A observer \in Player :
    LET board == gameState[Me].board
        winner == checkWin(board, observer).winner
    IN /\ (HasRun(board, "Black") /\ HasRun(board, "White"))
            => winner = observer
       /\ (HasRun(board, "Black") /\ ~HasRun(board, "White"))
            => winner = "Black"
       /\ (HasRun(board, "White") /\ ~HasRun(board, "Black"))
            => winner = "White"

\* White observed the row as five Black stones followed by five White ones
\* and has won, though the scan meets the Black row first
DualCompletionToObserverWitness ==
  /\ lastCall.op = "collapseTimer"
  /\ gameState[Me].isGameOver
  /\ gameState[Me].currentPlayer = "White"
  /\ gameState[Me].winner = "White"
  /\ HasRun(gameState[Me].board, "Black")
  /\ HasRun(gameState[Me].board, "White")
  /\ observedColorAt(gameState[Me].board, WinRow[1]) = "Black"

\* C14: whenever the game is won, winningLine is a sequence of exactly five
\* coordinates: consecutive cells along one axis, in scan order from the
\* first of them, each holding a stone observed as the winner's color.
WinningLineIsFiveCells ==
  gameState[Me].isGameOver =>
    LET line == gameState[Me].winningLine
    IN /\ Len(line) = 5
       /\ \E d \in 1 .. 4 : line = lineFrom(line[1][1], line[1][2], directions[d])
       /\ \A k \in 1 .. Len(line) :
            observedColorAt(gameState[Me].board, line[k]) = gameState[Me].winner

\* the strength index the color used for its last placement
lastStoneIndex(gs, color) ==
  IF color = "Black" THEN gs.lastBlackStoneIndex ELSE gs.lastWhiteStoneIndex

\* the step adds a stone to the board
StoneAdded ==
  Cardinality(StoneCells(gameState'[Me].board))
    > Cardinality(StoneCells(gameState[Me].board))

\* C15: a color whose last placement used strength index 0 never uses
\* index 0 for its next placement.
NoRepeatOfStrongest ==
  [][(/\ StoneAdded
      /\ lastStoneIndex(gameState[Me], gameState[Me].currentPlayer) = 0)
       => lastStoneIndex(gameState'[Me], gameState[Me].currentPlayer) # 0]_vars

\* C16: selectStone(0) leaves the state unchanged when the turn has come
\* back to a color whose last placement used strength index 0.
SelectForbiddenIgnored ==
  [][(/\ Called("selectStone")
      /\ lastCall'.args[1] = 0
      /\ turnPhase(gameState[Me]) = "AwaitingPlacement"
      /\ lastStoneIndex(gameState[Me], gameState[Me].currentPlayer) = 0)
       => gameState' = gameState]_vars

\* the step completes a turn: an endTurn call or the end of a revert
TurnCompletes == Called("endTurn") \/ Called("revertTimer")

\* C17: whenever a turn completes, currentPlayer becomes the other color,
\* the placed flag is cleared and the selected strength of the new current
\* player is not index 0 if that player's last placement used index 0.
TurnCompletionDefault ==
  [][TurnCompletes =>
       LET prev == gameState[Me]
           new == gameState'[Me]
       IN /\ new.currentPlayer = Opponent(prev.currentPlayer)
          /\ ~new.isStonePlaced
          /\ lastStoneIndex(new, new.currentPlayer) = 0
               => new.selectedStoneIndex # 0]_vars

\* the turn came back, by endTurn, to Black, whose last stone was the
\* strongest: the other strength is selected
TurnCompletionDefaultWitness ==
  /\ lastCall.op = "endTurn"
  /\ gameState[Me].currentPlayer = "Black"
  /\ gameState[Me].lastBlackStoneIndex = 0
  /\ gameState[Me].selectedStoneIndex = 1
  /\ ~gameState[Me].isStonePlaced

\* C18: in play against the CPU, an undo() called with a non-empty history
\* restores a state in which it is the human's turn and no stone has been
\* placed yet.
UndoLandsOnHumanTurn ==
  [][(/\ Called("undo")
      /\ gameState[Me].gameMode = "PvE"
      /\ gameState[Me].cpuColor \in Player
      /\ Len(history[Me]) > 0) =>
       /\ gameState'[Me].currentPlayer = Opponent(gameState[Me].cpuColor)
       /\ ~gameState'[Me].isStonePlaced]_vars

\* C20: after resetGame(mode, cpuColor), from any state, the board and the
\* history are empty, both observation counts are 5, neither color has a
\* last strength, currentPlayer is Black, the phase is AwaitingPlacement
\* with no winner, and the mode and the CPU's color are the arguments, or
\* what they were before where the argument is left out.
ResetEffect ==
  [][Called("resetGame") =>
       LET prev == gameState[Me]
           new == gameState'[Me]
           mode == lastCall'.args[1]
           cpuColor == lastCall'.args[2]
       IN /\ new.board = EmptyBoard
          /\ history'[Me] = <<>>
          /\ new.blackObservationCount = 5
          /\ new.whiteObservationCount = 5
          /\ new.lastBlackStoneIndex = NoIndex
          /\ new.lastWhiteStoneIndex = NoIndex
          /\ new.currentPlayer = "Black"
          /\ turnPhase(new) = "AwaitingPlacement"
          /\ new.winner = None
          /\ new.gameMode = IF mode = Undefined THEN prev.gameMode ELSE mode
          /\ new.cpuColor = IF cpuColor = Undefined THEN prev.cpuColor
                            ELSE cpuColor]_vars

\* resetGame() was called without arguments in a game against the CPU as
\* White: the mode and the CPU's color are kept
ResetEffectWitness ==
  /\ lastCall.op = "resetGame"
  /\ lastCall.args = <<Undefined, Undefined>>
  /\ gameState[Me].gameMode = "PvE"
  /\ gameState[Me].cpuColor = "White"
  /\ gameState[Me].board = EmptyBoard
  /\ history[Me] = <<>>

\* C19: in Online mode undo() leaves the GameState and the history of
\* the client as they were, and no step taken while a client is in Online
\* mode - a handler, a timer callback, a joinRoom stage or a value event
\* of the room - appends a frame to that client's history.
OnlineUndoAndHistory ==
  [][\A c \in Tabs :
       inOnline(c) =>
         /\ Called("undo") /\ lastCall'.client = c =>
              gameState'[c] = gameState[c] /\ history'[c] = history[c]
         /\ \/ history'[c] = history[c]
            \/ /\ Called("resetGame") /\ lastCall'.client = c
               /\ history'[c] = <<>>]_vars

\* undo was clicked in Online mode by a client that still holds a frame of
\* its local game
OnlineUndoAndHistoryWitness ==
  /\ lastCall.op = "undo"
  /\ inOnline(lastCall.client)
  /\ roomId[lastCall.client] = TheRoom
  /\ history[lastCall.client] # <<>>
  /\ opened

\* C21: a reset, and an undo that restored a frame, cancel every pending
\* timer: the collapse timer is cleared, and a no-winner or revert timer
\* that was pending before the step is not pending after it (a CPU timer
\* is set anew by the effect on gameState at every change of the state).
TimersCancelled ==
  [][(Called("resetGame") \/ (Called("undo") /\ history' # history)) =>
       /\ ~timeoutRef'[Me]
       /\ ~(noWinnerTimer[Me] /\ noWinnerTimer'[Me])
       /\ ~(revertTimer[Me] /\ revertTimer'[Me])]_vars

\* C22: in confirmation mode a placeStone in AwaitingPlacement on an empty
\* cell that is not the pending one (none pending, or another cell pending)
\* only sets the pending cell to it: no stone, no history frame, the phase
\* and every other field as before; a placeStone on the pending cell
\* commits the placement; and no placeStone adds a stone anywhere but on
\* the cell that was pending.
ConfirmTwoClicks ==
  [][(Called("placeStone") /\ gameState[Me].confirmPlacementMode) =>
       LET gs == gameState[Me]
           legal == turnPhase(gs) = "AwaitingPlacement"
                    /\ ~hasStone(gs.board, target)
       IN /\ (legal /\ gs.pendingStone # target) =>
               /\ gameState'[Me] = [gs EXCEPT !.pendingStone = target]
               /\ history' = history
          /\ (legal /\ gs.pendingStone = target) =>
               /\ StoneCells(gameState'[Me].board) =
                    StoneCells(gs.board) \cup {target}
               /\ gameState'[Me].isStonePlaced
               /\ gameState'[Me].pendingStone = <<>>
          /\ (gameState'[Me].board # gs.board) => gs.pendingStone = target]_vars

\* a click has moved the pending cell in confirmation mode: the cell is
\* marked, it holds no stone and nothing is placed yet
ConfirmTwoClicksWitness ==
  /\ lastCall.op = "placeStone"
  /\ gameState[Me].confirmPlacementMode
  /\ gameState[Me].pendingStone = <<lastCall.args[1], lastCall.args[2]>>
  /\ ~hasStone(gameState[Me].board, gameState[Me].pendingStone)
  /\ StoneCells(gameState[Me].board) # {}
  /\ turnPhase(gameState[Me]) = "AwaitingPlacement"

\* C23: in PvE a placeStone call (a click on the board) made while
\* currentPlayer is the CPU's color leaves the game state as it was.
PveWrongMoverIgnored ==
  [][(/\ Called("placeStone")
      /\ gameState[Me].gameMode = "PvE"
      /\ gameState[Me].currentPlayer = gameState[Me].cpuColor)
       => gameState' = gameState]_vars

\* the step is a call of one of the four handlers that test the turn
TurnCall(c) ==
  /\ lastCall'.client = c
  /\ lastCall'.op \in {"placeStone", "endTurn", "observeBoard", "selectStone"}

\* C24: in Online mode placeStone, endTurn, observeBoard and selectStone
\* called by a client whose color is not currentPlayer (a host without a
\* color while the room is waiting included) leave the client's game state
\* as it was and write nothing to the room.
WrongMoverIgnored ==
  [][\A c \in Tabs :
       (/\ TurnCall(c)
        /\ inOnline(c)
        /\ myColor[c] # gameState[c].currentPlayer)
         => gameState'[c] = gameState[c] /\ room' = room]_vars

\* the host of a waiting room, still without a color, has clicked
WrongMoverIgnoredWitness ==
  LET c == lastCall.client IN
  /\ lastCall.op \in {"placeStone", "endTurn", "observeBoard", "selectStone"}
  /\ inOnline(c)
  /\ isHostRef[c]
  /\ roomId[c] = TheRoom
  /\ myColor[c] = None
  /\ gameState[c].status = "waiting"
  /\ room.doc.status = "waiting"

\* the step is an update of the room with the whole state of client c by
\* a handler or a timer of the game
GameWrite(c) ==
  /\ lastCall'.client = c
  /\ lastCall'.op \in {"placeStone", "endTurn", "observeBoard",
                       "collapseTimer", "noWinnerTimer", "revertTimer"}
  /\ room'.version # room.version

\* C25: in Online mode every write of the game state to the room is made
\* by the client whose color is currentPlayer at the time of the write.
WritesByMover ==
  [][\A c \in Tabs :
       GameWrite(c) => myColor[c] = gameState[c].currentPlayer]_vars

\* the fields of the game state
GameFields == DOMAIN createInitialState

\* C26: every delivery of the room document replaces the local game state
\* as a whole: afterwards every field but confirmPlacementMode has the
\* value of the delivered document, whatever the local state held, and
\* confirmPlacementMode has its local value.
DeliveryReplaces ==
  [][\A c \in Tabs :
       (Called("onValue") /\ lastCall'.client = c) =>
         LET data == Head(room.inbox[c]) IN
         /\ \A f \in GameFields \ {"confirmPlacementMode"} :
              gameState'[c][f] = data[f]
         /\ gameState'[c].confirmPlacementMode =
              gameState[c].confirmPlacementMode]_vars

\* a client in confirmation mode has received the document its opponent
\* wrote, without confirmation mode, when placing a stone
DeliveryReplacesWitness ==
  LET c == lastCall.client IN
  /\ lastCall.op = "onValue"
  /\ room.inbox[c] = <<>>
  /\ gameState[c].confirmPlacementMode
  /\ ~room.doc.confirmPlacementMode
  /\ gameState[c].board = room.doc.board
  /\ StoneCells(gameState[c].board) # {}
  /\ myColor[c] # gameState[c].currentPlayer

\* clients c and d are in the room as its host and its guest
HostAndGuest(c, d) ==
  /\ roomId[c] = TheRoom /\ roomId[d] = TheRoom
  /\ isHostRef[c] /\ ~isHostRef[d]

\* C27: a joinRoom that found no room creates it waiting and without a
\* host color, and its caller becomes host without a color; a joinRoom
\* that found the room waiting with its host makes the room playing with
\* a host color, and its caller becomes guest with the other color; the
\* host takes the host color of the room, and whenever host and guest
\* both have a color the two colors are opposite.
JoinAssignsColors ==
  [][\A c \in Tabs :
       /\ (Called("joinRoom.write") /\ lastCall'.client = c) =>
            /\ ~joinRef[c].snapshot.exists =>
                 /\ room'.doc.status = "waiting"
                 /\ room'.doc.hostColor = None
                 /\ joinRef'[c].stage = "created"
            /\ (/\ joinRef[c].snapshot.exists
                /\ joinRef[c].snapshot.doc.status = "waiting"
                /\ "host" \in joinRef[c].snapshot.doc.connections) =>
                 /\ room'.doc.status = "playing"
                 /\ room'.doc.hostColor \in Player
                 /\ joinRef'[c].stage = "joined"
       /\ (Called("joinRoom.done") /\ lastCall'.client = c) =>
            /\ joinRef[c].stage = "created" =>
                 /\ isHostRef'[c] /\ myColor'[c] = None
                 /\ gameState'[c].status = "waiting"
            /\ joinRef[c].stage = "joined" =>
                 /\ ~isHostRef'[c]
                 /\ myColor'[c] = Opponent(room.doc.hostColor)
                 /\ gameState'[c].status = "playing"
       /\ \A d \in Tabs \ {c} :
            (HostAndGuest(c, d)' /\ myColor'[c] # None /\ myColor'[d] # None)
              => /\ myColor'[c] = Opponent(myColor'[d])
                 /\ myColor'[c] = room'.doc.hostColor]_vars

\* the host has learned its color: host and guest hold the two colors
JoinAssignsColorsWitness ==
  \E c \in Tabs : \E d \in Tabs \ {c} :
    /\ HostAndGuest(c, d)
    /\ lastCall.op = "onValue" /\ lastCall.client = c
    /\ myColor[c] \in Player /\ myColor[d] \in Player
    /\ room.doc.status = "playing"

\* the history holds the frames of the scenario's four calls: the empty
\* board before Black's stone of strength 0 at (7,7), that stone before the
\* end of Black's turn, White to move with strength 1 selected, and White's
\* stone at (7,8) before the observation
scenarioFrames ==
  LET h == history[Me]
      first == withStone(EmptyBoard, <<7, 7>>,
                         Stone(STONE_PROBABILITIES["Black"][0]))
      second == withStone(first, <<7, 8>>,
                          Stone(STONE_PROBABILITIES["White"][1]))
  IN /\ Len(h) = 4
     /\ h[1] = [createInitialState EXCEPT
                  !.gameMode = h[1].gameMode, !.cpuColor = h[1].cpuColor,
                  !.confirmPlacementMode = h[1].confirmPlacementMode]
     /\ h[2].board = first /\ turnPhase(h[2]) = "Placed"
     /\ h[2].currentPlayer = "Black"
     /\ h[3].board = first /\ turnPhase(h[3]) = "AwaitingPlacement"
     /\ h[3].currentPlayer = "White" /\ h[3].selectedStoneIndex = 1
     /\ h[4].board = second /\ turnPhase(h[4]) = "Placed"
     /\ h[4].currentPlayer = "White"
     /\ h[4].blackObservationCount = createInitialState.blackObservationCount
     /\ h[4].whiteObservationCount = createInitialState.whiteObservationCount

\* the observation that follows the four calls is under way
scenarioObserving == scenarioFrames /\ pendingObs[Me].active

\* a step of the scenario's observation: no call that pushes, pops or
\* clears the history comes in between
scenarioStep == scenarioObserving /\ history' = history

\* the phases of the scenario follow each other in the order given
scenarioPhases ==
  LET from == turnPhase(gameState[Me])
      to == turnPhase(gameState'[Me])
  IN from # to =>
       <<from, to>> \in {<<"Collapsing", "ShowingNoWinner">>,
                         <<"ShowingNoWinner", "Reverting">>,
                         <<"Reverting", "AwaitingPlacement">>}

\* the outcome of the scenario when the observation is charged to the
\* player given and the turn passes to next
scenarioOutcome(charged, next) ==
  LET gs == gameState'[Me]
      full == createInitialState.blackObservationCount
      used == IF turnPhase(gs) = "Collapsing" THEN 0 ELSE 1
  IN /\ gs.blackObservationCount =
          IF charged = "Black" THEN full - used ELSE full
     /\ gs.whiteObservationCount =
          IF charged = "White" THEN full - used ELSE full
     /\ turnPhase(gs) = "AwaitingPlacement" => gs.currentPlayer = next

\* C28 as the scenario runs: Black places at (7,7) with strength 0 and ends
\* the turn, White places at (7,8) with strength 1, and observeBoard is
\* called.  The observation is White's, the player to move: White's count
\* goes from 5 to 4 and Black's stays 5, the phase passes through
\* Collapsing, ShowingNoWinner, Reverting and AwaitingPlacement, and
\* currentPlayer is Black at the end.
ScenarioChargesMover ==
  [][scenarioStep => scenarioPhases /\ scenarioOutcome("White", "Black")]_vars

\* C28 as stated: Black's count goes from 5 to 4, White's stays 5, the
\* phase passes through Collapsing, ShowingNoWinner, Reverting and
\* AwaitingPlacement, and currentPlayer is White at the end.
ScenarioChargesFirst ==
  [][scenarioStep => scenarioPhases /\ scenarioOutcome("Black", "White")]_vars

\* the scenario has run to its end: the revert timer has passed the turn
ScenarioChargesMoverWitness ==
  /\ scenarioFrames
  /\ lastCall.op = "revertTimer"
  /\ turnPhase(gameState[Me]) = "AwaitingPlacement"
  /\ gameState[Me].whiteObservationCount =
       createInitialState.whiteObservationCount - 1
  /\ gameState[Me].board = history[Me][4].board

\* C29: a stone has an observed color only in the phases ShowingNoWinner
\* and Over, where every stone has one; in AwaitingPlacement, Placed,
\* Collapsing and Reverting no stone has an observed color.
ObservedColorByPhase ==
  LET gs == gameState[Me]
      colored == {rc \in StoneCells(gs.board) :
                    gs.board[rc].observedColor # None}
  IN IF turnPhase(gs) \in {"ShowingNoWinner", "Over"}
     THEN colored = StoneCells(gs.board)
     ELSE colored = {}

\* an observation of several stones found no winner: every stone shows
\* its color while the message is up
ObservedColorByPhaseWitness ==
  /\ lastCall.op = "collapseTimer"
  /\ turnPhase(gameState[Me]) = "ShowingNoWinner"
  /\ Cardinality(StoneCells(gameState[Me].board)) >= 2
  /\ \A rc \in StoneCells(gameState[Me].board) :
       gameState[Me].board[rc].observedColor # None

\* it is the CPU's turn in the state before the step
cpuTurn ==
  /\ gameState[Me].gameMode = "PvE"
  /\ gameState[Me].currentPlayer = gameState[Me].cpuColor

\* the CPU's placement timer fires in AwaitingPlacement of the CPU's turn
\* and places one stone of the CPU's color
cpuPlaces ==
  Called("cpuPlaceTimer") =>
    LET gs == gameState[Me] IN
    /\ cpuTurn
    /\ turnPhase(gs) = "AwaitingPlacement"
    /\ StoneAdded
    /\ gameState'[Me].isStonePlaced
    /\ gameState'[Me].currentPlayer = gs.currentPlayer
    /\ \A rc \in StoneCells(gameState'[Me].board) \ StoneCells(gs.board) :
         \E index \in {0, 1} :
           gameState'[Me].board[rc].probability =
             STONE_PROBABILITIES[gs.cpuColor][index]

\* the CPU's decision timer fires after the CPU's placement and either
\* starts an observation, with an observation left, or ends the turn
cpuDecides ==
  Called("cpuDecideTimer") =>
    LET gs == gameState[Me] IN
    /\ cpuTurn
    /\ turnPhase(gs) = "Placed"
    /\ cpuStateRef[Me] = "placed"
    /\ \/ /\ turnPhase(gameState'[Me]) = "Collapsing"
          /\ observationCount(gs, gs.currentPlayer) > 0
          /\ gameState'[Me].currentPlayer = gs.currentPlayer
       \/ /\ turnPhase(gameState'[Me]) = "AwaitingPlacement"
          /\ gameState'[Me].currentPlayer = Opponent(gs.currentPlayer)

\* in the CPU's turn the stone is placed, the observation started and the
\* turn ended by the CPU's timers only
cpuActsAlone ==
  (cpuTurn /\ lastCall'.op \in {"placeStone", "endTurn", "observeBoard"})
    => gameState' = gameState

\* C30: in a turn of the CPU the engine places exactly one stone of the
\* CPU's color after the thinking delay, then after the second delay
\* either starts an observation or ends the turn; it decides only after
\* its own placement, it never observes without an observation left, and
\* nothing else places, observes or ends the turn in the CPU's turn.
HeuristicTurn == [][cpuPlaces /\ cpuDecides /\ cpuActsAlone]_vars

\* the steps that are callbacks of timers
\* a timer of the client is pending
timerPending ==
  \/ cpuTimer[Me] # "none"
  \/ timeoutRef[Me]
  \/ noWinnerTimer[Me]
  \/ revertTimer[Me]

\* C31: in play against the CPU, whatever calls the presentation layer has
\* issued, the CPU's turn never blocks: while it is the CPU's turn and the
\* game is not over, a timer is pending whose callback carries the turn on.
CpuTurnScheduled ==
  (cpuTurn /\ ~gameState[Me].isGameOver) => timerPending

\* the cells of the board that hold no stone
emptyCells(board) == {rc \in Coords : ~hasStone(board, rc)}

\* C32: getCpuMove returns a cell of the board that holds no stone whenever
\* there is one, and null exactly when there is none; the CPU's placement
\* puts one stone on a cell that was empty and leaves every stone that was
\* on the board as it was.
ChooseMoveEmptyCell ==
  [][Called("cpuPlaceTimer") =>
       LET board == gameState[Me].board
           moves == getCpuMove(board, gameState[Me].currentPlayer)
       IN /\ moves = {} <=> emptyCells(board) = {}
          /\ moves \subseteq emptyCells(board)
          /\ moves \subseteq Coords
          /\ \A rc \in StoneCells(board) :
               /\ hasStone(gameState'[Me].board, rc)
               /\ gameState'[Me].board[rc] = board[rc]
          /\ IF moves = {}
             THEN gameState'[Me].board = board
             ELSE \E rc \in moves :
                    StoneCells(gameState'[Me].board)
                      = StoneCells(board) \cup {rc}]_vars

\* on a board without an empty cell the CPU's placement timer has fired and
\* has placed nothing
ChooseMoveEmptyCellWitness ==
  /\ lastCall.op = "cpuPlaceTimer"
  /\ emptyCells(gameState[Me].board) = {}
  /\ ~gameState[Me].isStonePlaced

\* a call that was accepted: a placeStone that put a stone on the board,
\* an endTurn or an observeBoard that changed the state
acceptedCall ==
  \/ Called("placeStone") /\ StoneAdded
  \/ Called("endTurn") /\ gameState'[Me] # gameState[Me]
  \/ Called("observeBoard") /\ gameState'[Me] # gameState[Me]

\* C33: in local two-player play every accepted placeStone, endTurn and
\* observeBoard pushes the state that preceded it on the history, and undo
\* pops the last frame: it makes that frame the state and leaves the
\* history as it was before the frame was pushed; on an empty history undo
\* changes nothing.
HistoryIsLifo ==
  [][/\ acceptedCall =>
          history'[Me] = Append(history[Me], gameState[Me])
     /\ (Called("undo") /\ Len(history[Me]) > 0) =>
          /\ gameState'[Me] = history[Me][Len(history[Me])]
          /\ history'[Me] = SubSeq(history[Me], 1, Len(history[Me]) - 1)
     /\ (Called("undo") /\ Len(history[Me]) = 0) =>
          /\ gameState' = gameState
          /\ history' = history]_vars

\* undo has popped a frame pushed by endTurn or observeBoard, with other
\* frames below it
HistoryIsLifoWitness ==
  /\ lastCall.op = "undo"
  /\ gameState[Me].isStonePlaced
  /\ Len(history[Me]) >= 2

\* C34: for every delivered document, whose board is absent or lacks the
\* rows and the cells without a stone, the grid built on delivery has every
\* row and every cell of the board, a cell holding the document's stone at
\* its position when there is one and null otherwise, and it becomes the
\* local board.
DeliveryFillsBoard ==
  [][\A c \in Tabs :
       (Called("onValue") /\ lastCall'.client = c) =>
         LET data == Head(room.inbox[c])
             grid == syncedBoard(snapshotBoard(data.board))
         IN /\ DOMAIN grid = Index
            /\ \A r \in Index :
                 /\ DOMAIN grid[r] = Index
                 /\ \A col \in Index :
                      grid[r][col] = IF hasStone(data.board, <<r, col>>)
                                     THEN data.board[<<r, col>>]
                                     ELSE NullCell
            /\ gameState'[c].board = boardOfGrid(grid)
            /\ gameState'[c].board = data.board]_vars

\* a document with a stone, hence with absent rows and absent cells, has
\* been delivered to the peer of its writer
DeliveryFillsBoardWitness ==
  /\ lastCall.op = "onValue"
  /\ StoneCells(gameState[lastCall.client].board) # {}
  /\ StoneCells(gameState[lastCall.client].board) # Coords

\* the number of the four phase flags that are set
phaseFlagsSet(gs) ==
  Cardinality({f \in {"isCollapsing", "showNoWinnerMessage", "isReverting",
                       "isGameOver"} : gs[f]})

\* C35: in every reachable state at most one of isCollapsing,
\* showNoWinnerMessage, isReverting and isGameOver is set, isObserving is
\* equal to showNoWinnerMessage, and isGameOver is set exactly when there is
\* a winner.
PhaseFlagsExclusive ==
  LET gs == gameState[Me] IN
  /\ phaseFlagsSet(gs) <= 1
  /\ gs.isObserving = gs.showNoWinnerMessage
  /\ gs.isGameOver <=> gs.winner # None

\* C36: at most one observation is started per turn: observeBoard is
\* ignored while the no-winner message shows and during the revert, it is
\* accepted only when no observation of the turn is under way, and the
\* collapse timer resolves an observation only while it is still the turn
\* of the player who started it.
OneObservationPerTurn ==
  [][/\ (/\ Called("observeBoard")
         /\ turnPhase(gameState[Me]) \in {"ShowingNoWinner", "Reverting"}) =>
           /\ StateAndHistoryKept
           /\ timeoutRef' = timeoutRef
     /\ (Called("observeBoard") /\ gameState'[Me] # gameState[Me]) =>
           ~pendingObs[Me].active
     /\ (/\ Called("collapseTimer")
         /\ gameState[Me].isCollapsing
         /\ pendingObs[Me].active) =>
           gameState[Me].currentPlayer = pendingObs[Me].by]_vars

\* every stone of the room's document is in the document after the step
docStonesKept ==
  \A rc \in StoneCells(room.doc.board) :
    /\ hasStone(room'.doc.board, rc)
    /\ room'.doc.board[rc].probability = room.doc.board[rc].probability

\* C37: online, whatever the order of the two clients' no-winner timers,
\* revert timers and deliveries after an observation without a winner, the
\* shared document loses no stone, the write of a no-winner timer takes it
\* from ShowingNoWinner to Reverting with currentPlayer as it was, and
\* currentPlayer changes by the write of a revert timer only, which takes
\* the document out of Reverting: it rotates once.
NoWinnerRotatesOnce ==
  [][(Called("noWinnerTimer") \/ Called("revertTimer") \/ Called("onValue")) =>
       /\ docStonesKept
       /\ (Called("noWinnerTimer") /\ room'.doc # room.doc) =>
            /\ room.doc.showNoWinnerMessage
            /\ room'.doc.currentPlayer = room.doc.currentPlayer
       /\ room'.doc.currentPlayer # room.doc.currentPlayer =>
            /\ Called("revertTimer")
            /\ room.doc.isReverting
            /\ ~room'.doc.isReverting]_vars

\* the clients that consider themselves host, and guest, of the room
hosts == {c \in Tabs : roomId[c] # "" /\ isHostRef[c]}

guests == {c \in Tabs : roomId[c] # "" /\ ~isHostRef[c]}

\* C38: whatever the order of the reads and the writes of the clients'
\* joinRoom calls on one room id, at most one client considers itself host,
\* at most one considers itself guest, and no two clients of the room hold
\* the same color.
JoinRolesUnique ==
  /\ Cardinality(hosts) <= 1
  /\ Cardinality(guests) <= 1
  /\ \A c, d \in hosts \cup guests :
       (c # d /\ myColor[c] # None) => myColor[c] # myColor[d]

\* a host and a guest have joined the room and both tabs are in it: the
\* guest from its status write on
participantsPresent ==
  \E c, d \in Tabs :
    /\ c # d
    /\ roomId[c] = TheRoom /\ isHostRef[c]
    /\ \/ roomId[d] = TheRoom /\ ~isHostRef[d]
       \/ joinRef[d].stage = "joined"

\* C39: once a host and a guest have joined a room and its status is
\* playing, a joinRoom of a third client leaves the room's document as it
\* is while both participants are in the room, from the guest's status
\* write on.
ThirdJoinKeepsRoom ==
  [][(/\ Called("joinRoom") /\ lastCall'.client = Third
      /\ room.doc.status = "playing"
      /\ participantsPresent) =>
       room'.doc = room.doc]_vars

\* C40: from the state a resetGame leaves - also a resetGame without a mode
\* called in Online mode, which leaves the room and clears the client's
\* color - placeStone on an empty cell is accepted: the cell then holds a
\* stone of the player to move.
ResetThenPlayable ==
  [][(/\ lastCall.op = "resetGame"
      /\ Called("placeStone")
      /\ lastCall'.client = lastCall.client
      /\ <<lastCall'.args[1], lastCall'.args[2]>>
           \notin StoneCells(gameState[lastCall.client].board)) =>
       LET c == lastCall.client
           prev == gameState[c]
           cell == <<lastCall'.args[1], lastCall'.args[2]>>
       IN /\ cell \in StoneCells(gameState'[c].board)
          /\ gameState'[c].board[cell] =
               Stone(STONE_PROBABILITIES[prev.currentPlayer]
                                        [prev.selectedStoneIndex])]_(lastCall.op)

====
